---- MODULE Spec2Model ----
\* A model of the TrueType reader (src/TrueTypeFont.ts) and of the index
\* builders of the tessellator (src/index.ts).
\*
\* Numbers: every coordinate the model handles is an integer.  The F2Dot14
\* coefficients drawn for the fonts are whole multiples of 16384, so the
\* division of f2dot14ToFloat is exact, and every Float32Array store of the
\* decoder holds an integer far below 2^24, which a float32 represents exactly.
\* Typed-array stores keep their width: Int16Array wraps to [-32768, 32767],
\* Uint16Array to [0, 65535].
EXTENDS Integers, Sequences, FiniteSets, TLC

VARIABLES
    font,         \* the font file: buffer bytes, table directory, maxp/head values
    locaCache,    \* TrueTypeFont._loca: not loaded (null), or the materialised offsets
    pointsCache,  \* TrueTypeFont.pointsCache: gid -> Outline
    stack,        \* the active readCompoundOutline frames, innermost last
    pc,           \* "idle" | "loop" | "resume": where the decoder stands
    ret,          \* the outline the innermost finished call returned
    hmtx,         \* TrueTypeFont._hmtx: the advance and lsb arrays
    cmap12,       \* TrueTypeFont._cmap12: null, or the format-12 subtable found
    cmap4,        \* TrueTypeFont._cmap4: null, or the format-4 subtable found
    req,          \* the argument of the current / last top-level call
    before,       \* pointsCache as it was when that call was made
    result,       \* what the last top-level call produced
    renderer,     \* which renderer runs: "wireframe" (src/index.ts) or "stencil"
                  \* (src/unnamed/part_002)
    TEXT_LINES,   \* the lines of text, each a sequence of code points
    GLYPH_CACHE,  \* gid -> GlyphMesh | null
    penX,         \* the pen of render(), in 1/FixedOne pixels
    penY,
    glyphIndex,   \* the glyph counter of the stencil-cover render()
    drawList,     \* its draw list: {mesh, index} with the origin written to the
                  \* parameter record at index
    params,       \* the parameter records written in the frame, in order
    pass,         \* the draws recorded in the render pass of the frame
    at,           \* where render() stands: phase, line, ch (1-based), k
    work          \* how often getGlyphMesh decoded / tessellated / built a gid

renderVars == <<renderer, TEXT_LINES, GLYPH_CACHE, penX, penY, glyphIndex, drawList,
                params, pass, at, work>>
vars == <<font, locaCache, pointsCache, stack, pc, ret, hmtx, cmap12, cmap4,
          req, before, result, renderVars>>
glyfVars == <<locaCache, pointsCache, stack, ret, before>>
metricVars == <<hmtx>>
cmapVars == <<cmap12, cmap4>>

\* ------------------------------------------------------------------ bounds
MaxGlyphs == 2
MaxStack == 3
MaxVertex == 6
MaxCp == 5
MaxGroups == 3
MaxSegs == 2
MaxPoints == 3
MaxCoord == 4
MaxContourPoints == 3
MaxLineLen == 2
MaxOver == 2

\* ---------------------------------------------------------------- sentinels
NotLoaded == [loaded |-> FALSE, offsets |-> <<>>]
Loaded(offsets) == [loaded |-> TRUE, offsets |-> offsets]
NaN == "NaN"
NoResult == [kind |-> "none"]
Ok(v) == [kind |-> "ok", val |-> v]
Err(e) == [kind |-> "error", err |-> e]

\* ------------------------------------------------------------- small helpers
Min(a, b) == IF a < b THEN a ELSE b
Max(a, b) == IF a > b THEN a ELSE b
Bit(f, mask) == (f \div mask) % 2 = 1
ToInt16(v) == ((v + 32768) % 65536) - 32768
ToUint16(v) == v % 65536

RECURSIVE Concat(_)
Concat(chunks) ==
    IF chunks = <<>> THEN <<>> ELSE Head(chunks) \o Concat(Tail(chunks))

\* ------------------------------------------------------------------ DataView
\* Big-endian reads at byte offset p of the byte sequence b (offset 0 is b[1]).
\* A read is defined only when InBuf holds; DataView throws RangeError otherwise.
InBuf(b, p, w) == p >= 0 /\ p + w <= Len(b)
getUint8(b, p) == b[p + 1]
getInt8(b, p) == IF b[p + 1] >= 128 THEN b[p + 1] - 256 ELSE b[p + 1]
getUint16(b, p) == b[p + 1] * 256 + b[p + 2]
getInt16(b, p) == ToInt16(getUint16(b, p))
getUint32(b, p) == getUint16(b, p) * 65536 + getUint16(b, p + 2)

f2dot14ToFloat(v) == v \div 16384

EmptyOutline == [points |-> <<>>, onCurve |-> <<>>, contours |-> <<>>]

\* ------------------------------------------------------------- simple glyph
\* for (let i = 0; i < numContours; i++, p += 2) endPts[i] = getUint16(p)
ReadEndPts(b, p, numContours) ==
    [i \in 1..numContours |-> getUint16(b, p + 2 * (i - 1))]

\* Mutant: a repeat count is followed to its end.
RECURSIVE ReadFlagsOverrun(_, _, _, _)
ReadFlagsOverrun(b, st, i, numPoints) ==
    IF ~st.ok \/ i >= numPoints THEN st
    ELSE IF ~InBuf(b, st.p, 1) THEN [st EXCEPT !.ok = FALSE]
    ELSE
        LET f == getUint8(b, st.p) IN
        IF Bit(f, 8)
        THEN IF ~InBuf(b, st.p + 1, 1) THEN [st EXCEPT !.ok = FALSE]
             ELSE LET n == getUint8(b, st.p + 1)
                  IN ReadFlagsOverrun(b,
                         [p |-> st.p + 2,
                          flags |-> st.flags \o [k \in 1..(n + 1) |-> f],
                          ok |-> TRUE],
                         i + n + 1, numPoints)
        ELSE ReadFlagsOverrun(b,
                 [p |-> st.p + 1, flags |-> Append(st.flags, f), ok |-> TRUE],
                 i + 1, numPoints)

\* The flag loop.  st = [p, flags, ok]; i is the 0-based index of the point
\* whose flag byte is read next.
RECURSIVE ReadFlags(_, _, _, _)
ReadFlags(b, st, i, numPoints) ==
    IF ~st.ok \/ i >= numPoints THEN st
    ELSE IF ~InBuf(b, st.p, 1) THEN [st EXCEPT !.ok = FALSE]
    ELSE
        LET f == getUint8(b, st.p) IN
        IF Bit(f, 8)
        THEN IF ~InBuf(b, st.p + 1, 1) THEN [st EXCEPT !.ok = FALSE]
             ELSE LET rep == getUint8(b, st.p + 1)
                      n == Min(rep, numPoints - 1 - i)
                  IN ReadFlags(b,
                         [p |-> st.p + 2,
                          flags |-> st.flags \o [k \in 1..(n + 1) |-> f],
                          ok |-> TRUE],
                         i + n + 1, numPoints)
        ELSE ReadFlags(b,
                 [p |-> st.p + 1, flags |-> Append(st.flags, f), ok |-> TRUE],
                 i + 1, numPoints)

\* One coordinate stream (X with short = 0x02, same = 0x10; Y with 0x04, 0x20).
\* st = [p, vals, ok]; vals is the Int16Array filled so far.
RECURSIVE ReadCoords(_, _, _, _, _)
ReadCoords(b, st, flags, short, same) ==
    LET i == Len(st.vals) + 1
        prev == IF i > 1 THEN st.vals[i - 1] ELSE 0
    IN
    IF ~st.ok \/ i > Len(flags) THEN st
    ELSE IF Bit(flags[i], short)
    THEN IF ~InBuf(b, st.p, 1) THEN [st EXCEPT !.ok = FALSE]
         ELSE LET d == getUint8(b, st.p)
                  v == prev + (IF Bit(flags[i], same) THEN d ELSE 0 - d)
              IN ReadCoords(b,
                     [p |-> st.p + 1, vals |-> Append(st.vals, ToInt16(v)), ok |-> TRUE],
                     flags, short, same)
    ELSE IF ~Bit(flags[i], same)
    THEN IF ~InBuf(b, st.p, 2) THEN [st EXCEPT !.ok = FALSE]
         ELSE LET d == getInt16(b, st.p)
              IN ReadCoords(b,
                     [p |-> st.p + 2, vals |-> Append(st.vals, ToInt16(prev + d)), ok |-> TRUE],
                     flags, short, same)
    ELSE ReadCoords(b,
             [p |-> st.p, vals |-> Append(st.vals, prev), ok |-> TRUE],
             flags, short, same)

Interleave(X, Y) ==
    [j \in 1..(2 * Len(X)) |-> IF j % 2 = 1 THEN X[(j + 1) \div 2] ELSE Y[j \div 2]]

OnCurveOf(flags) == [i \in 1..Len(flags) |-> IF Bit(flags[i], 1) THEN 1 ELSE 0]

\* readSimpleOutline(gStart), called with numContours > 0: an outline, or the
\* RangeError of a read past the end of the buffer.
readSimpleOutline(b, gStart) ==
    LET numContours == getInt16(b, gStart)
        p0 == gStart + 10
    IN
    IF ~InBuf(b, p0, 2 * numContours) THEN Err("RangeError")
    ELSE
    LET endPts == ReadEndPts(b, p0, numContours)
        numPoints == endPts[numContours] + 1
        p1 == p0 + 2 * numContours
    IN
    IF ~InBuf(b, p1, 2) THEN Err("RangeError")
    ELSE
    LET instructionLength == getUint16(b, p1)
        fl == ReadFlags(b, [p |-> p1 + 2 + instructionLength, flags |-> <<>>, ok |-> TRUE],
                        0, numPoints)
    IN
    IF ~fl.ok THEN Err("RangeError")
    ELSE
    LET xs == ReadCoords(b, [p |-> fl.p, vals |-> <<>>, ok |-> TRUE], fl.flags, 2, 16) IN
    IF ~xs.ok THEN Err("RangeError")
    ELSE
    LET ys == ReadCoords(b, [p |-> xs.p, vals |-> <<>>, ok |-> TRUE], fl.flags, 4, 32) IN
    IF ~ys.ok THEN Err("RangeError")
    ELSE Ok([points |-> Interleave(xs.vals, ys.vals),
             onCurve |-> OnCurveOf(fl.flags),
             contours |-> endPts])

\* ------------------------------------------------------------ table lookups
\* getTable(tag): the TableInfo, or the Error thrown for an absent tag.
HasTable(f, tag) == tag \in DOMAIN f.tables
getTable(f, tag) == f.tables[tag]
TableMissing(tag) == Err("TTF table not found: " \o tag)

\* ensureLoca(): the numGlyphs + 1 offsets read from the loca table, short
\* format values doubled.  No check of the offsets is made.
ensureLoca(f) ==
    LET n == f.numGlyphs + 1
        o == getTable(f, "loca").offset
    IN
    IF f.indexToLocFormat = 0
    THEN IF ~InBuf(f.buf, o, 2 * n) THEN Err("RangeError")
         ELSE Ok([i \in 1..n |-> getUint16(f.buf, o + 2 * (i - 1)) * 2])
    ELSE IF ~InBuf(f.buf, o, 4 * n) THEN Err("RangeError")
         ELSE Ok([i \in 1..n |-> getUint32(f.buf, o + 4 * (i - 1))])

\* Mutant: an absent glyf table is taken to start at offset 0.
glyphRangeDefaultOffset(f, lc, gid) ==
    IF gid < 0 \/ gid >= f.numGlyphs
    THEN [res |-> Err("gid out of range"), loca |-> lc]
    ELSE IF ~lc.loaded /\ ~HasTable(f, "loca")
    THEN [res |-> TableMissing("loca"), loca |-> lc]
    ELSE IF ~lc.loaded /\ ~HasTable(f, "head")
    THEN [res |-> TableMissing("head"), loca |-> lc]
    ELSE
    LET l == IF lc.loaded THEN Ok(lc.offsets) ELSE ensureLoca(f)
        glyf == IF HasTable(f, "glyf") THEN getTable(f, "glyf").offset ELSE 0
    IN
    IF l.kind = "error" THEN [res |-> l, loca |-> lc]
    ELSE [res |-> Ok([start |-> glyf + l.val[gid + 1], end |-> glyf + l.val[gid + 2]]),
          loca |-> Loaded(l.val)]

\* Mutant: a glyph id outside the font is taken for a glyph without bytes.
glyphRangeLenient(f, lc, gid) ==
    IF gid < 0 \/ gid >= f.numGlyphs
    THEN [res |-> Ok([start |-> 0, end |-> 0]), loca |-> lc]
    ELSE
    LET l == IF lc.loaded THEN Ok(lc.offsets) ELSE ensureLoca(f) IN
    IF l.kind = "error" THEN [res |-> l, loca |-> lc]
    ELSE [res |-> Ok([start |-> getTable(f, "glyf").offset + l.val[gid + 1],
                      end |-> getTable(f, "glyf").offset + l.val[gid + 2]]),
          loca |-> Loaded(l.val)]

\* glyphRange(gid) with this._loca = lc: [res, loca], where res is
\* Ok([start, end]) or the error thrown and loca the value of this._loca after.
\* ensureLoca() looks up loca, then head (for indexToLocFormat); numGlyphs is
\* the value the constructor has cached.
glyphRange(f, lc, gid) ==
    IF gid < 0 \/ gid >= f.numGlyphs
    THEN [res |-> Err("gid out of range"), loca |-> lc]
    ELSE IF ~HasTable(f, "glyf") THEN [res |-> TableMissing("glyf"), loca |-> lc]
    ELSE IF ~lc.loaded /\ ~HasTable(f, "loca")
    THEN [res |-> TableMissing("loca"), loca |-> lc]
    ELSE IF ~lc.loaded /\ ~HasTable(f, "head")
    THEN [res |-> TableMissing("head"), loca |-> lc]
    ELSE
    LET l == IF lc.loaded THEN Ok(lc.offsets) ELSE ensureLoca(f) IN
    IF l.kind = "error" THEN [res |-> l, loca |-> lc]
    ELSE [res |-> Ok([start |-> getTable(f, "glyf").offset + l.val[gid + 1],
                      end |-> getTable(f, "glyf").offset + l.val[gid + 2]]),
          loca |-> Loaded(l.val)]

\* ------------------------------------------------------------ compound glyph
ARG_1_AND_2_ARE_WORDS == 1
ARGS_ARE_XY_VALUES == 2
WE_HAVE_A_SCALE == 8
MORE_COMPONENTS == 32
WE_HAVE_AN_X_AND_Y_SCALE == 64
WE_HAVE_A_TWO_BY_TWO == 128
WE_HAVE_INSTRUCTIONS == 256

ArgBytes(flags) == IF Bit(flags, ARG_1_AND_2_ARE_WORDS) THEN 4 ELSE 2
MatrixBytes(flags) ==
    IF Bit(flags, WE_HAVE_A_SCALE) THEN 2
    ELSE IF Bit(flags, WE_HAVE_AN_X_AND_Y_SCALE) THEN 4
    ELSE IF Bit(flags, WE_HAVE_A_TWO_BY_TWO) THEN 8
    ELSE 0

\* One pass of the do-loop up to the recursive call: the component header at p.
\* [ok |-> FALSE] stands for the RangeError of a read past the buffer.
ReadComponent(b, p) ==
    IF ~InBuf(b, p, 4) THEN [ok |-> FALSE]
    ELSE
    LET flags == getUint16(b, p)
        compGid == getUint16(b, p + 2)
        pa == p + 4
        pm == pa + ArgBytes(flags)
    IN
    IF ~InBuf(b, pa, ArgBytes(flags) + MatrixBytes(flags)) THEN [ok |-> FALSE]
    ELSE
    LET words == Bit(flags, ARG_1_AND_2_ARE_WORDS)
        m(k) == f2dot14ToFloat(getInt16(b, pm + 2 * k))
    IN
    [ok |-> TRUE,
     flags |-> flags,
     compGid |-> compGid,
     arg1 |-> IF words THEN getInt16(b, pa) ELSE getInt8(b, pa),
     arg2 |-> IF words THEN getInt16(b, pa + 2) ELSE getInt8(b, pa + 1),
     a |-> IF Bit(flags, WE_HAVE_A_SCALE) THEN m(0)
           ELSE IF Bit(flags, WE_HAVE_AN_X_AND_Y_SCALE) THEN m(0)
           ELSE IF Bit(flags, WE_HAVE_A_TWO_BY_TWO) THEN m(0)
           ELSE 1,
     b |-> IF ~Bit(flags, WE_HAVE_A_SCALE) /\ ~Bit(flags, WE_HAVE_AN_X_AND_Y_SCALE)
              /\ Bit(flags, WE_HAVE_A_TWO_BY_TWO) THEN m(1) ELSE 0,
     c |-> IF ~Bit(flags, WE_HAVE_A_SCALE) /\ ~Bit(flags, WE_HAVE_AN_X_AND_Y_SCALE)
              /\ Bit(flags, WE_HAVE_A_TWO_BY_TWO) THEN m(2) ELSE 0,
     d |-> IF Bit(flags, WE_HAVE_A_SCALE) THEN m(0)
           ELSE IF Bit(flags, WE_HAVE_AN_X_AND_Y_SCALE) THEN m(1)
           ELSE IF Bit(flags, WE_HAVE_A_TWO_BY_TWO) THEN m(3)
           ELSE 1,
     p |-> pm + MatrixBytes(flags)]

\* Mutant: the two arguments are taken in the wrong order.
TranslationSwapped(h, subPts, assembledPts) ==
    IF Bit(h.flags, ARGS_ARE_XY_VALUES) THEN [dx |-> h.arg2, dy |-> h.arg1]
    ELSE [dx |-> 0, dy |-> 0]

\* Mutant: the anchor point of the component is taken before the matrix.
TranslationUntransformed(h, subPts, assembledPts) ==
    IF Bit(h.flags, ARGS_ARE_XY_VALUES) THEN [dx |-> h.arg1, dy |-> h.arg2]
    ELSE
    LET idx1 == Max(0, Min(Len(subPts) \div 2 - 1, h.arg1))
        idx2 == Max(0, Min(Len(assembledPts) \div 2 - 1, h.arg2))
    IN
    IF Len(subPts) = 0 THEN [dx |-> NaN, dy |-> NaN]
    ELSE [dx |-> (IF Len(assembledPts) # 0 THEN assembledPts[idx2 * 2 + 1] ELSE 0)
                 - subPts[idx1 * 2 + 1],
          dy |-> (IF Len(assembledPts) # 0 THEN assembledPts[idx2 * 2 + 2] ELSE 0)
                 - subPts[idx1 * 2 + 2]]

\* The translation (dx, dy) of a component: its arguments when they are XY
\* values, else the offset that brings its point idx1 onto the parent's point
\* idx2.  With an empty component subPts[0] is undefined and dx, dy are NaN.
Translation(h, subPts, assembledPts) ==
    IF Bit(h.flags, ARGS_ARE_XY_VALUES) THEN [dx |-> h.arg1, dy |-> h.arg2]
    ELSE
    LET idx1 == Max(0, Min(Len(subPts) \div 2 - 1, h.arg1))
        idx2 == Max(0, Min(Len(assembledPts) \div 2 - 1, h.arg2))
    IN
    IF Len(subPts) = 0 THEN [dx |-> NaN, dy |-> NaN]
    ELSE
    LET lx == subPts[idx1 * 2 + 1]
        ly == subPts[idx1 * 2 + 2]
        tx == h.a * lx + h.b * ly
        ty == h.c * lx + h.d * ly
        X == IF Len(assembledPts) # 0 THEN assembledPts[idx2 * 2 + 1] ELSE 0
        Y == IF Len(assembledPts) # 0 THEN assembledPts[idx2 * 2 + 2] ELSE 0
    IN [dx |-> X - tx, dy |-> Y - ty]

\* trPts: the component's points under the full transform.
TransformPts(h, t, subPts) ==
    [i \in 1..Len(subPts) |->
        IF i % 2 = 1
        THEN h.a * subPts[i] + h.b * subPts[i + 1] + t.dx
        ELSE h.c * subPts[i - 1] + h.d * subPts[i] + t.dy]

\* Mutant: the shift counts floats (totalPts) instead of points.
ShiftEndsByFloats(subEnds, totalPts) ==
    [i \in 1..Len(subEnds) |-> ToUint16(subEnds[i] + totalPts)]

\* trEnds: the component's contour ends shifted by the points gathered so far
\* (a Uint16Array store).
ShiftEnds(subEnds, totalPts) ==
    LET offsetPoints == totalPts \div 2
    IN [i \in 1..Len(subEnds) |-> ToUint16(subEnds[i] + offsetPoints)]

\* The rest of one pass of the do-loop, after getGlyphOutline(compGid) has
\* returned sub: the frame with the component appended.
AddComponent(fr, sub) ==
    LET h == fr.h
        t == Translation(h, sub.points, fr.assembledPts)
        trPts == TransformPts(h, t, sub.points)
        trEnds == ShiftEnds(sub.contours, fr.totalPts)
    IN [fr EXCEPT !.partsPts = Append(@, trPts),
                  !.partsOn = Append(@, sub.onCurve),
                  !.partsEnds = Append(@, trEnds),
                  !.totalPts = @ + Len(trPts),
                  !.totalContours = @ + Len(trEnds),
                  !.assembledPts = @ \o trPts]

\* Mutant: the flags of the first chunk only.
concatUint8FirstOnly(chunks) == IF chunks = <<>> THEN <<>> ELSE Head(chunks)

\* concatFloat32 / concatUint8 / concatUint16 write the chunks one after the
\* other into an array of the given total length.
concatFloat32(chunks, totalFloats) == SubSeq(Concat(chunks), 1, totalFloats)
concatUint8(chunks) == Concat(chunks)
concatUint16(chunks, total) == SubSeq(Concat(chunks), 1, total)

\* After the loop: the instruction skip (a read that may fail) and the gluing.
FinishCompound(b, fr) ==
    IF Bit(fr.h.flags, WE_HAVE_INSTRUCTIONS) /\ ~InBuf(b, fr.p, 2)
    THEN Err("RangeError")
    ELSE Ok([points |-> concatFloat32(fr.partsPts, fr.totalPts),
             onCurve |-> concatUint8(fr.partsOn),
             contours |-> concatUint16(fr.partsEnds, fr.totalContours)])

NewFrame(gid, gStart) ==
    [gid |-> gid, p |-> gStart + 10, h |-> [ok |-> FALSE],
     partsPts |-> <<>>, partsOn |-> <<>>, partsEnds |-> <<>>,
     totalPts |-> 0, totalContours |-> 0, assembledPts |-> <<>>]

\* ------------------------------------------------------------ getGlyphOutline
\* Mutant: a cache that evicts, keeping only the newest entry.
CacheSetEvicting(cache, gid, outline) == [g \in {gid} |-> outline]

\* Mutant: a placeholder is stored under the gid instead of the decoded outline.
CacheSetPlaceholder(cache, gid, outline) ==
    [g \in DOMAIN cache \cup {gid} |-> IF g = gid THEN EmptyOutline ELSE cache[g]]

\* Mutant: an outline without points is not worth an entry.
CacheSetSkipEmpty(cache, gid, outline) ==
    IF outline.points = <<>> THEN cache
    ELSE [g \in DOMAIN cache \cup {gid} |-> IF g = gid THEN outline ELSE cache[g]]

\* this.pointsCache.set(gid, outline)
CacheSet(cache, gid, outline) ==
    [g \in DOMAIN cache \cup {gid} |-> IF g = gid THEN outline ELSE cache[g]]

\* getGlyphOutline(gid) up to its return, its throw, or the first pass of the
\* loop of readCompoundOutline:
\*   [kind |-> "return", val, cache, loca]   the call returns val
\*   [kind |-> "throw", err, loca]           the call throws
\*   [kind |-> "push", frame, loca]          the glyph is compound
EnterOutcome(f, lc, cache, gid) ==
    IF gid \in DOMAIN cache
    THEN [kind |-> "return", val |-> cache[gid], cache |-> cache, loca |-> lc]
    ELSE
    LET r == glyphRange(f, lc, gid) IN
    IF r.res.kind = "error" THEN [kind |-> "throw", err |-> r.res.err, loca |-> r.loca]
    ELSE
    LET start == r.res.val.start
        end == r.res.val.end
    IN
    IF start = end
    THEN [kind |-> "return", val |-> EmptyOutline,
          cache |-> CacheSet(cache, gid, EmptyOutline), loca |-> r.loca]
    ELSE IF ~InBuf(f.buf, start, 2)
    THEN [kind |-> "throw", err |-> "RangeError", loca |-> r.loca]
    ELSE
    LET nContours == getInt16(f.buf, start) IN
    IF nContours > 0
    THEN LET o == readSimpleOutline(f.buf, start) IN
         IF o.kind = "error" THEN [kind |-> "throw", err |-> o.err, loca |-> r.loca]
         ELSE [kind |-> "return", val |-> o.val,
               cache |-> CacheSet(cache, gid, o.val), loca |-> r.loca]
    ELSE IF nContours < 0
    THEN [kind |-> "push", frame |-> NewFrame(gid, start), loca |-> r.loca]
    ELSE [kind |-> "return", val |-> EmptyOutline,
          cache |-> CacheSet(cache, gid, EmptyOutline), loca |-> r.loca]

\* Mutant: a throw discards what the failed call had cached.
ThrownRollback(e) ==
    /\ stack' = <<>>
    /\ pc' = "idle"
    /\ result' = Err(e)
    /\ ret' = EmptyOutline
    /\ pointsCache' = before

\* An uncaught throw unwinds every frame; the cache keeps what was written.
Thrown(e) ==
    /\ stack' = <<>>
    /\ pc' = "idle"
    /\ result' = Err(e)
    /\ ret' = EmptyOutline
    /\ pointsCache' = pointsCache

\* A getGlyphOutline call returns v to the frames st (to the caller of the
\* top-level call when st is empty).
Returned(v, st) ==
    /\ stack' = st
    /\ IF st = <<>>
       THEN pc' = "idle" /\ result' = Ok(v) /\ ret' = EmptyOutline
       ELSE pc' = "resume" /\ result' = result /\ ret' = v

\* A getGlyphOutline(gid) call made with the frames st active.  The engine's
\* call stack holds MaxStack nested calls; one more is a RangeError.
Enter(gid, st) ==
    IF Len(st) >= MaxStack
    THEN Thrown("RangeError: Maximum call stack size exceeded") /\ locaCache' = locaCache
    ELSE
    LET o == EnterOutcome(font, locaCache, pointsCache, gid) IN
    /\ locaCache' = o.loca
    /\ CASE o.kind = "throw" -> Thrown(o.err)
         [] o.kind = "return" -> Returned(o.val, st) /\ pointsCache' = o.cache
         [] o.kind = "push" ->
                /\ stack' = Append(st, o.frame)
                /\ pc' = "loop"
                /\ UNCHANGED <<pointsCache, ret, result>>

\* A caller asks for the outline of gid.
Call(gid) ==
    /\ pc = "idle"
    /\ req' = gid
    /\ before' = pointsCache
    /\ UNCHANGED <<font, metricVars, cmapVars, renderVars>>
    /\ Enter(gid, <<>>)

\* readCompoundOutline: the head of one pass of the do-loop, up to and into
\* the call getGlyphOutline(compGid).
Component ==
    /\ pc = "loop"
    /\ UNCHANGED <<font, req, before, metricVars, cmapVars, renderVars>>
    /\ LET n == Len(stack)
           h == ReadComponent(font.buf, stack[n].p)
       IN IF ~h.ok
          THEN Thrown("RangeError") /\ locaCache' = locaCache
          ELSE Enter(h.compGid, [stack EXCEPT ![n].h = h, ![n].p = h.p])

\* readCompoundOutline: the rest of the pass, once the component's outline is
\* back; after the last component the outline is glued, cached under the
\* glyph's id by getGlyphOutline, and returned.
Resume ==
    /\ pc = "resume"
    /\ UNCHANGED <<font, req, before, locaCache, metricVars, cmapVars, renderVars>>
    /\ LET n == Len(stack)
           fr == AddComponent(stack[n], ret)
       IN IF Bit(fr.h.flags, MORE_COMPONENTS)
          THEN /\ stack' = [stack EXCEPT ![n] = fr]
               /\ pc' = "loop"
               /\ ret' = EmptyOutline
               /\ UNCHANGED <<pointsCache, result>>
          ELSE LET o == FinishCompound(font.buf, fr) IN
               IF o.kind = "error" THEN Thrown(o.err)
               ELSE /\ pointsCache' = CacheSet(pointsCache, fr.gid, o.val)
                    /\ Returned(o.val, SubSeq(stack, 1, n - 1))

\* ------------------------------------------------------------------- hmtx
NoHmtx == [advance |-> <<>>, lsb |-> <<>>]

\* ensureHmtx(): nH (advance, lsb) pairs, then lsb alone up to numGlyphs.  The
\* lsb array has numGlyphs elements; a store past its end is dropped.
ensureHmtx(f) ==
    LET nH == f.numberOfHMetrics
        nG == f.numGlyphs
        o == getTable(f, "hmtx").offset
    IN
    IF ~InBuf(f.buf, o, 4 * nH + 2 * Max(0, nG - nH)) THEN Err("RangeError")
    ELSE Ok([advance |-> [i \in 1..nH |-> getUint16(f.buf, o + 4 * (i - 1))],
             lsb |-> [i \in 1..nG |->
                        IF i <= nH THEN getInt16(f.buf, o + 4 * (i - 1) + 2)
                        ELSE getInt16(f.buf, o + 4 * nH + 2 * (i - 1 - nH))]])

\* arr[i] of a typed array, 0-based: undefined outside the array.
At(arr, i) ==
    IF i >= 0 /\ i < Len(arr) THEN [defined |-> TRUE, v |-> arr[i + 1]]
    ELSE [defined |-> FALSE, v |-> 0]

\* Mutant: the boundary glyph nH is looked up in the advance array.
getHMetricInclusive(f, hm, gid) ==
    LET nH == f.numberOfHMetrics IN
    [advanceWidth |-> IF gid <= nH THEN At(hm.advance, gid) ELSE At(hm.advance, nH - 1),
     lsb |-> At(hm.lsb, gid)]

\* getHMetric(gid)
getHMetric(f, hm, gid) ==
    LET nH == f.numberOfHMetrics IN
    [advanceWidth |-> IF gid < nH THEN At(hm.advance, gid) ELSE At(hm.advance, nH - 1),
     lsb |-> At(hm.lsb, gid)]

GetHMetric(gid) ==
    /\ pc = "idle"
    /\ req' = gid
    /\ result' = Ok(getHMetric(font, hmtx, gid))
    /\ UNCHANGED <<font, pc, glyfVars, metricVars, cmapVars, renderVars>>

\* ------------------------------------------------------- line-list indices
\* Mutant: the closing pair is left out.
RECURSIVE LineListOpen(_, _, _)
LineListOpen(contourEnds, c, start) ==
    IF c > Len(contourEnds) THEN <<>>
    ELSE LET end == contourEnds[c] IN
         Concat([k \in 1..Max(0, end - start) |-> <<start + k - 1, start + k>>])
         \o LineListOpen(contourEnds, c + 1, end + 1)

\* The loop of makeLineListIndices from contour c (1-based) on, with the
\* running start: the pairs (i, i + 1) for i in [start, end), then (end, start).
RECURSIVE LineListFrom(_, _, _)
LineListFrom(contourEnds, c, start) ==
    IF c > Len(contourEnds) THEN <<>>
    ELSE LET end == contourEnds[c] IN
         Concat([k \in 1..Max(0, end - start) |-> <<start + k - 1, start + k>>])
         \o <<end, start>>
         \o LineListFrom(contourEnds, c + 1, end + 1)

makeLineListIndices(contourEnds) == LineListFrom(contourEnds, 1, 0)

MakeLineListIndices ==
    /\ pc = "idle"
    /\ result' = Ok(makeLineListIndices(req))
    /\ UNCHANGED <<font, pc, req, glyfVars, metricVars, cmapVars, renderVars>>

\* ------------------------------------------------------ adaptive flattener
\* Numbers of the tessellator are fixed-point: FixedOne units to the font
\* unit, so that the midpoints the code takes (x * 0.5) are whole numbers of
\* units for the inputs drawn below (QuadExact says when).  NonFinite stands
\* for Infinity and NaN alike: a sum or product with one is one, and every
\* comparison `err <= tolerance` with one is false.
FixedOne == 256
NonFinite == 1073741824
\* 0.75 font units in the wireframe renderer (src/index.ts), 0.5 in the
\* stencil-cover renderer (src/unnamed/part_002).
ADAPTIVE_TOLERANCE_FU(program) ==
    IF program = "wireframe" THEN (3 * FixedOne) \div 4 ELSE FixedOne \div 2
MAX_SUBDIVISION_DEPTH == 12

IsFinite(v) == v # NonFinite
FinitePt(p) == IsFinite(p[1]) /\ IsFinite(p[2])
Abs(v) == IF v < 0 THEN 0 - v ELSE v
\* (a + b) * 0.5
Mid(a, b) == IF IsFinite(a) /\ IsFinite(b) THEN (a + b) \div 2 ELSE NonFinite

\* a * a <= FixedOne^2 * b for a, b >= 0, without forming the squares.
LeqScaledSquare(a, b) ==
    LET q == a \div FixedOne
        r == a % FixedOne
    IN
    IF q > 0 /\ q > b \div q THEN FALSE
    ELSE
    LET d == b - q * q IN
    IF d >= 2 * q + 1 THEN TRUE
    ELSE 2 * q * r + (r * r) \div FixedOne < FixedOne * d
         \/ (2 * q * r + (r * r) \div FixedOne = FixedOne * d /\ (r * r) % FixedOne = 0)

\* pointLineDistance(p1, p0, p2) <= tolerance: the distance of p1 from the
\* line through p0 and p2 (from p0 when the two coincide) is |cross| / |p2 - p0|.
\* The tolerance is a whole number of quarters of a font unit.
WithinTolerance(p0, p1, p2, tolerance) ==
    IF ~(FinitePt(p0) /\ FinitePt(p1) /\ FinitePt(p2)) THEN FALSE
    ELSE
    LET dx == p2[1] - p0[1]
        dy == p2[2] - p0[2]
        vx == p1[1] - p0[1]
        vy == p1[2] - p0[2]
        len2 == dx * dx + dy * dy
        quarters == (4 * tolerance) \div FixedOne
    IN
    IF len2 = 0 THEN vx * vx + vy * vy <= tolerance * tolerance
    ELSE LeqScaledSquare(4 * Abs(vx * dy - vy * dx), quarters * quarters * len2)

\* splitQuad: [p0, p01, p012, p12, p2].
splitQuad(p0, p1, p2) ==
    LET p01 == <<Mid(p0[1], p1[1]), Mid(p0[2], p1[2])>>
        p12 == <<Mid(p1[1], p2[1]), Mid(p1[2], p2[2])>>
        p012 == <<Mid(p01[1], p12[1]), Mid(p01[2], p12[2])>>
    IN <<p0, p01, p012, p12, p2>>

\* quadBezierAdaptive: the points it pushes to out, in order.
RECURSIVE quadBezierAdaptive(_, _, _, _, _)
quadBezierAdaptive(p0, p1, p2, tolerance, depth) ==
    IF depth > MAX_SUBDIVISION_DEPTH THEN <<p2>>
    ELSE IF WithinTolerance(p0, p1, p2, tolerance) THEN <<p2>>
    ELSE LET q == splitQuad(p0, p1, p2) IN
         quadBezierAdaptive(q[1], q[2], q[3], tolerance, depth + 1)
         \o quadBezierAdaptive(q[3], q[4], q[5], tolerance, depth + 1)

\* The halvings of quadBezierAdaptive(p0, p1, p2) are exact in fixed point,
\* and no distance it compares on a slanted chord is so near the tolerance
\* that the rounding of the floating-point distance could decide (OnTolerance:
\* twice the cross product is the whole part of FixedOne * |p2 - p0|).
OnTolerance(p0, p1, p2, tolerance) ==
    LET dx == p2[1] - p0[1]
        dy == p2[2] - p0[2]
        vx == p1[1] - p0[1]
        vy == p1[2] - p0[2]
        len2 == dx * dx + dy * dy
        quarters == (4 * tolerance) \div FixedOne
        a == 4 * Abs(vx * dy - vy * dx)
    IN
    /\ len2 # 0
    /\ dx # 0 /\ dy # 0
    /\ LeqScaledSquare(a, quarters * quarters * len2)
    /\ ~LeqScaledSquare(a + 1, quarters * quarters * len2)
Even(v) == v % 2 = 0
RECURSIVE QuadExact(_, _, _, _, _)
QuadExact(p0, p1, p2, tolerance, depth) ==
    IF depth > MAX_SUBDIVISION_DEPTH THEN TRUE
    ELSE IF ~(FinitePt(p0) /\ FinitePt(p1) /\ FinitePt(p2)) THEN TRUE
    ELSE IF OnTolerance(p0, p1, p2, tolerance) THEN FALSE
    ELSE IF WithinTolerance(p0, p1, p2, tolerance) THEN TRUE
    ELSE
    LET q == splitQuad(p0, p1, p2) IN
    /\ \A k \in 1..2 : /\ Even(p0[k] + p1[k]) /\ Even(p1[k] + p2[k])
                       /\ Even((p0[k] + p1[k]) \div 2 + (p1[k] + p2[k]) \div 2)
    /\ QuadExact(q[1], q[2], q[3], tolerance, depth + 1)
    /\ QuadExact(q[3], q[4], q[5], tolerance, depth + 1)

\* a % c of the code, for c # 0: the sign of the result is the sign of a.
JsRem(a, c) == IF a >= 0 THEN a % Abs(c) ELSE 0 - ((0 - a) % Abs(c))

\* get(i) of outlineToPolylineTTF: the point at start + ((i % count + count) %
\* count), as {x, y, on}.  With count = 0 the index is NaN; an index outside
\* the arrays reads undefined, which `|| 0` turns into 0 and `!== 0` into on.
PointOf(o, idx) ==
    IF idx >= 0 /\ idx < Len(o.onCurve) /\ 2 * idx + 2 <= Len(o.points)
    THEN [x |-> o.points[2 * idx + 1] * FixedOne,
          y |-> o.points[2 * idx + 2] * FixedOne,
          on |-> o.onCurve[idx + 1] # 0]
    ELSE [x |-> 0, y |-> 0, on |-> TRUE]
get(o, start, count, i) ==
    IF count = 0 THEN PointOf(o, 0 - 1)
    ELSE PointOf(o, start + JsRem(JsRem(i, count) + count, count))

MidPoint(a, b) == [x |-> Mid(a.x, b.x), y |-> Mid(a.y, b.y), on |-> TRUE]
Line(a, b) == [kind |-> "line", p0 |-> <<a.x, a.y>>, p1 |-> <<a.x, a.y>>, p2 |-> <<b.x, b.y>>]
Quad(a, c, b) == [kind |-> "quad", p0 |-> <<a.x, a.y>>, p1 |-> <<c.x, c.y>>, p2 |-> <<b.x, b.y>>]

\* The loop `for (let i = 1; i <= count; i++)` of one contour.  w = [prev,
\* out, segs]: out is outPts, segs lists the segments in the order the loop
\* emits them (a record of the calls, not a variable of the code).
RECURSIVE WalkContour(_, _, _, _, _, _)
WalkContour(o, program, start, count, i, w) ==
    IF i > count THEN w
    ELSE
    LET curr == get(o, start, count, i) IN
    IF w.prev.on /\ curr.on
    THEN WalkContour(o, program, start, count, i + 1,
             [prev |-> curr, out |-> w.out \o <<curr.x, curr.y>>,
              segs |-> Append(w.segs, Line(w.prev, curr))])
    ELSE IF w.prev.on /\ ~curr.on
    THEN LET next == get(o, start, count, i + 1)
             endPt == IF next.on THEN next ELSE MidPoint(curr, next)
             chords == quadBezierAdaptive(<<w.prev.x, w.prev.y>>, <<curr.x, curr.y>>,
                                          <<endPt.x, endPt.y>>,
                                          ADAPTIVE_TOLERANCE_FU(program), 0)
         IN WalkContour(o, program, start, count, (IF next.on THEN i + 1 ELSE i) + 1,
                [prev |-> endPt, out |-> w.out \o Concat(chords),
                 segs |-> Append(w.segs, Quad(w.prev, curr, endPt))])
    ELSE WalkContour(o, program, start, count, i + 1, w)

\* The first vertex of a contour: its first point, or the implicit start when
\* that point is off-curve.
ContourStart(o, start, count) ==
    LET first == get(o, start, count, 0)
        last == get(o, start, count, count - 1)
    IN IF ~first.on
       THEN IF last.on THEN last ELSE MidPoint(last, first)
       ELSE first

\* The fewest vertices a contour needs to get an entry in outEnds: 2 in the
\* wireframe renderer (src/index.ts), 3 in the stencil-cover renderer
\* (src/unnamed/part_002).
MinAdded(program) == IF program = "wireframe" THEN 2 ELSE 3

\* The loop over the contours of outlineToPolylineTTF from contour ci (1-based)
\* on.  acc = [points, contours, segs, added]: outPts, outEnds and, per input
\* contour, the segments emitted for it and the value of `added`.
RECURSIVE FlattenFrom(_, _, _, _, _)
FlattenFrom(o, program, ci, start, acc) ==
    IF ci > Len(o.contours) THEN acc
    ELSE
    LET end == o.contours[ci]
        count == end - start + 1
        prev == ContourStart(o, start, count)
        w == WalkContour(o, program, start, count, 1,
                 [prev |-> prev, out |-> acc.points \o <<prev.x, prev.y>>, segs |-> <<>>])
        added == Len(w.out) \div 2 - Len(acc.points) \div 2
    IN FlattenFrom(o, program, ci + 1, end + 1,
           [points |-> w.out,
            contours |-> IF added >= MinAdded(program)
                         THEN Append(acc.contours, Len(w.out) \div 2 - 1)
                         ELSE acc.contours,
            segs |-> Append(acc.segs, w.segs),
            added |-> Append(acc.added, added)])

outlineToPolylineTTF(o, program) ==
    FlattenFrom(o, program, 1, 0,
        [points |-> <<>>, contours |-> <<>>, segs |-> <<>>, added |-> <<>>])

QuadBezierAdaptive ==
    /\ pc = "idle"
    /\ result = NoResult
    /\ result' = Ok(quadBezierAdaptive(req.p0, req.p1, req.p2, req.tolerance, 0))
    /\ UNCHANGED <<font, pc, req, glyfVars, metricVars, cmapVars, renderVars>>

OutlineToPolylineTTF ==
    /\ pc = "idle"
    /\ result = NoResult
    /\ result' = Ok(outlineToPolylineTTF(req.outline, req.program))
    /\ UNCHANGED <<font, pc, req, glyfVars, metricVars, cmapVars, renderVars>>

\* ------------------------------------------------------------ fan indices
\* Mutant: the inner loop runs up to and including end.
RECURSIVE FanInclusive(_, _, _)
FanInclusive(contourEnds, c, start) ==
    IF c > Len(contourEnds) THEN <<>>
    ELSE LET end == contourEnds[c] IN
         Concat([k \in 1..Max(0, end - start) |-> <<start, start + k, start + k + 1>>])
         \o FanInclusive(contourEnds, c + 1, end + 1)

\* The loop of makeFanIndices from contour c (1-based) on, with the running
\* start: the triples (start, i, i + 1) for i in [start + 1, end).
RECURSIVE FanFrom(_, _, _)
FanFrom(contourEnds, c, start) ==
    IF c > Len(contourEnds) THEN <<>>
    ELSE LET end == contourEnds[c] IN
         Concat([k \in 1..Max(0, end - start - 1) |-> <<start, start + k, start + k + 1>>])
         \o FanFrom(contourEnds, c + 1, end + 1)

makeFanIndices(contourEnds) == FanFrom(contourEnds, 1, 0)

MakeFanIndices ==
    /\ pc = "idle"
    /\ result' = Ok(makeFanIndices(req))
    /\ UNCHANGED <<font, pc, req, glyfVars, metricVars, cmapVars, renderVars>>

\* ------------------------------------------------------------------- cmap
NoCmap12 == [present |-> FALSE, sub |-> 0, nGroups |-> 0]
NoCmap4 ==
    [present |-> FALSE, sub |-> 0, segCount |-> 0, endCode |-> 0, startCode |-> 0,
     idDelta |-> 0, idRangeOff |-> 0]

\* The loop of ensureCmap from encoding record i on.  st = [c12, c4, ok, err];
\* a RangeError (ok = FALSE) leaves what the earlier records have set.
RECURSIVE CmapRecords(_, _, _, _, _)
CmapRecords(b, base, numTables, i, st) ==
    IF i >= numTables THEN st
    ELSE
    LET rec == base + 4 + i * 8 IN
    IF ~InBuf(b, rec + 4, 4) THEN [st EXCEPT !.ok = FALSE, !.err = "RangeError"]
    ELSE
    LET sub == base + getUint32(b, rec + 4) IN
    IF ~InBuf(b, sub, 2) THEN [st EXCEPT !.ok = FALSE, !.err = "RangeError"]
    ELSE
    LET fmt == getUint16(b, sub) IN
    IF fmt = 12 /\ ~st.c12.present
    THEN IF ~InBuf(b, sub + 12, 4) THEN [st EXCEPT !.ok = FALSE, !.err = "RangeError"]
         ELSE CmapRecords(b, base, numTables, i + 1,
                  [st EXCEPT !.c12 = [present |-> TRUE, sub |-> sub,
                                      nGroups |-> getUint32(b, sub + 12)]])
    ELSE IF fmt = 4 /\ ~st.c4.present
    THEN IF ~InBuf(b, sub + 6, 2) THEN [st EXCEPT !.ok = FALSE, !.err = "RangeError"]
         ELSE LET segCount == getUint16(b, sub + 6) \div 2
                  endCode == sub + 14
                  startCode == endCode + segCount * 2 + 2
                  idDelta == startCode + segCount * 2
                  idRangeOff == idDelta + segCount * 2
              IN CmapRecords(b, base, numTables, i + 1,
                     [st EXCEPT !.c4 = [present |-> TRUE, sub |-> sub,
                                        segCount |-> segCount, endCode |-> endCode,
                                        startCode |-> startCode, idDelta |-> idDelta,
                                        idRangeOff |-> idRangeOff]])
    ELSE CmapRecords(b, base, numTables, i + 1, st)

\* ensureCmap() with this._cmap12 = c12 and this._cmap4 = c4:
\* [c12, c4, ok, err], err being the error thrown when ok is FALSE.
ensureCmap(f, c12, c4) ==
    IF c12.present \/ c4.present
    THEN [c12 |-> c12, c4 |-> c4, ok |-> TRUE, err |-> ""]
    ELSE IF ~HasTable(f, "cmap")
    THEN [c12 |-> c12, c4 |-> c4, ok |-> FALSE, err |-> TableMissing("cmap").err]
    ELSE
    LET base == getTable(f, "cmap").offset IN
    IF ~InBuf(f.buf, base + 2, 2)
    THEN [c12 |-> c12, c4 |-> c4, ok |-> FALSE, err |-> "RangeError"]
    ELSE CmapRecords(f.buf, base, getUint16(f.buf, base + 2), 0,
                     [c12 |-> c12, c4 |-> c4, ok |-> TRUE, err |-> ""])

Hit(g) == [kind |-> "hit", gid |-> g]
Miss == [kind |-> "miss", gid |-> 0]

\* Mutant: the search gives up when one candidate group is left.
RECURSIVE Search12Short(_, _, _, _, _)
Search12Short(b, sub, lo, hi, codepoint) ==
    IF lo >= hi THEN Miss
    ELSE
    LET mid == (lo + hi) \div 2
        g == sub + 16 + mid * 12
    IN
    IF ~InBuf(b, g, 12) THEN Err("RangeError")
    ELSE IF codepoint < getUint32(b, g) THEN Search12Short(b, sub, lo, mid - 1, codepoint)
    ELSE IF codepoint > getUint32(b, g + 4) THEN Search12Short(b, sub, mid + 1, hi, codepoint)
    ELSE Hit(getUint32(b, g + 8) + (codepoint - getUint32(b, g)))

\* The format-12 binary search of mapCharToGlyph over groups lo..hi.
RECURSIVE Search12(_, _, _, _, _)
Search12(b, sub, lo, hi, codepoint) ==
    IF lo > hi THEN Miss
    ELSE
    LET mid == (lo + hi) \div 2
        g == sub + 16 + mid * 12
    IN
    IF ~InBuf(b, g, 12) THEN Err("RangeError")
    ELSE
    LET startChar == getUint32(b, g)
        endChar == getUint32(b, g + 4)
        startGid == getUint32(b, g + 8)
    IN
    IF codepoint < startChar THEN Search12(b, sub, lo, mid - 1, codepoint)
    ELSE IF codepoint > endChar THEN Search12(b, sub, mid + 1, hi, codepoint)
    ELSE Hit(startGid + (codepoint - startChar))

\* Mutant: a code point equal to endCode moves on to the next segment.
RECURSIVE Search4Strict(_, _, _, _, _)
Search4Strict(b, endCode, lo, hi, codepoint) ==
    IF lo > hi THEN lo
    ELSE
    LET mid == (lo + hi) \div 2 IN
    IF ~InBuf(b, endCode + mid * 2, 2) THEN 0 - 1
    ELSE IF codepoint >= getUint16(b, endCode + mid * 2)
         THEN Search4Strict(b, endCode, mid + 1, hi, codepoint)
         ELSE Search4Strict(b, endCode, lo, mid - 1, codepoint)

\* The format-4 binary search over endCode: the value of lo when the loop ends,
\* or -1 for the RangeError of a read past the buffer.
RECURSIVE Search4(_, _, _, _, _)
Search4(b, endCode, lo, hi, codepoint) ==
    IF lo > hi THEN lo
    ELSE
    LET mid == (lo + hi) \div 2 IN
    IF ~InBuf(b, endCode + mid * 2, 2) THEN 0 - 1
    ELSE IF codepoint > getUint16(b, endCode + mid * 2)
         THEN Search4(b, endCode, mid + 1, hi, codepoint)
         ELSE Search4(b, endCode, lo, mid - 1, codepoint)

\* Mutant: the glyph id is not reduced to 16 bits.
Lookup4NoMask(b, c4, codepoint) ==
    LET i == Search4(b, c4.endCode, 0, c4.segCount - 1, codepoint) IN
    IF i < 0 THEN Err("RangeError")
    ELSE IF i >= c4.segCount THEN Ok(0)
    ELSE IF ~InBuf(b, c4.startCode + i * 2, 2) THEN Err("RangeError")
    ELSE
    LET start == getUint16(b, c4.startCode + i * 2) IN
    IF codepoint < start THEN Ok(0)
    ELSE IF ~InBuf(b, c4.idDelta + i * 2, 2) \/ ~InBuf(b, c4.idRangeOff + i * 2, 2)
    THEN Err("RangeError")
    ELSE
    LET delta == getInt16(b, c4.idDelta + i * 2)
        rangeOffset == getUint16(b, c4.idRangeOff + i * 2)
        idx == c4.idRangeOff + i * 2 + rangeOffset + (codepoint - start) * 2
    IN
    IF rangeOffset = 0 THEN Ok(codepoint + delta)
    ELSE IF ~InBuf(b, idx, 2) THEN Err("RangeError")
    ELSE IF getUint16(b, idx) = 0 THEN Ok(0)
    ELSE Ok(getUint16(b, idx) + delta)

\* The format-4 part of mapCharToGlyph.
Lookup4(b, c4, codepoint) ==
    LET i == Search4(b, c4.endCode, 0, c4.segCount - 1, codepoint) IN
    IF i < 0 THEN Err("RangeError")
    ELSE IF i >= c4.segCount THEN Ok(0)
    ELSE IF ~InBuf(b, c4.startCode + i * 2, 2) THEN Err("RangeError")
    ELSE
    LET start == getUint16(b, c4.startCode + i * 2) IN
    IF codepoint < start THEN Ok(0)
    ELSE IF ~InBuf(b, c4.idDelta + i * 2, 2) \/ ~InBuf(b, c4.idRangeOff + i * 2, 2)
    THEN Err("RangeError")
    ELSE
    LET delta == getInt16(b, c4.idDelta + i * 2)
        rangeOffset == getUint16(b, c4.idRangeOff + i * 2)
    IN
    IF rangeOffset = 0 THEN Ok((codepoint + delta) % 65536)
    ELSE
    LET roff == c4.idRangeOff + i * 2
        idx == roff + rangeOffset + (codepoint - start) * 2
    IN
    IF ~InBuf(b, idx, 2) THEN Err("RangeError")
    ELSE IF getUint16(b, idx) = 0 THEN Ok(0)
    ELSE Ok((getUint16(b, idx) + delta) % 65536)

\* Mutant: a miss in the format-12 groups is final.
mapCharToGlyph12Only(b, c12, c4, codepoint) ==
    LET r == IF c12.present THEN Search12(b, c12.sub, 0, c12.nGroups - 1, codepoint)
             ELSE Miss
    IN
    IF r.kind = "error" THEN r
    ELSE IF r.kind = "hit" THEN Ok(r.gid)
    ELSE IF c12.present THEN Ok(0)
    ELSE IF c4.present THEN Lookup4(b, c4, codepoint)
    ELSE Ok(0)

\* mapCharToGlyph(codepoint) after ensureCmap(): format 12 first, then format 4
\* unless a group was hit, else 0.
mapCharToGlyph(b, c12, c4, codepoint) ==
    LET r == IF c12.present THEN Search12(b, c12.sub, 0, c12.nGroups - 1, codepoint)
             ELSE Miss
    IN
    IF r.kind = "error" THEN r
    ELSE IF r.kind = "hit" THEN Ok(r.gid)
    ELSE IF c4.present THEN Lookup4(b, c4, codepoint)
    ELSE Ok(0)

MapCharToGlyph(codepoint) ==
    /\ pc = "idle"
    /\ req' = codepoint
    /\ LET e == ensureCmap(font, cmap12, cmap4) IN
       /\ cmap12' = e.c12
       /\ cmap4' = e.c4
       /\ result' = IF ~e.ok THEN Err(e.err)
                    ELSE mapCharToGlyph(font.buf, e.c12, e.c4, codepoint)
    /\ UNCHANGED <<font, pc, glyfVars, metricVars, renderVars>>

\* ------------------------------------------------------------ the font files
\* Big-endian encodings used to lay out the bytes of the fonts below.
U16(v) == <<(v % 65536) \div 256, v % 256>>
U32(v) == U16(v \div 65536) \o U16(v % 65536)
BBox == <<0, 0, 0, 0, 0, 0, 0, 0>>

\* A glyph with a header and no contour (numContours = 0).
GlyphZero == U16(0) \o BBox
\* Two contours, four points, one instruction byte; flags 0x01, 0x3E repeated
\* once, 0x31; X = 10, 12, 15, 15 and Y = -3, -2, -1, -1.
GlyphTwoContours ==
    U16(2) \o BBox \o U16(1) \o U16(3) \o U16(1) \o <<170>>
    \o <<1, 62, 1, 49>> \o <<0, 10, 2, 3>> \o <<255, 253, 1, 1>> \o <<0>>
\* A glyph whose endPtsOfContours are stored out of order (1, 0): one point,
\* flag 0x37, X = 5, Y = 7.
GlyphEndsOutOfOrder ==
    U16(2) \o BBox \o U16(1) \o U16(0) \o U16(0) \o <<55, 5, 7>> \o <<0>>
\* One component: gid g placed at (3, -2), byte arguments, identity matrix.
GlyphOneComponent(g) ==
    U16(65535) \o BBox \o U16(ARGS_ARE_XY_VALUES) \o U16(g) \o <<3, 254>>
\* Two components: g1 mirrored in X (XY scale -1, 1) at (100, -50) with word
\* arguments, then g2 at (3, -2) with the identity, then one instruction byte.
GlyphTwoComponents(g1, g2) ==
    U16(65535) \o BBox
    \o U16(ARG_1_AND_2_ARE_WORDS + ARGS_ARE_XY_VALUES + MORE_COMPONENTS
           + WE_HAVE_AN_X_AND_Y_SCALE)
    \o U16(g1) \o U16(100) \o U16(-50) \o U16(-16384) \o U16(16384)
    \o U16(ARGS_ARE_XY_VALUES + WE_HAVE_INSTRUCTIONS) \o U16(g2) \o <<3, 254>>
    \o U16(1) \o <<170>>

GlyphPool(n) ==
    {<<>>, GlyphZero, GlyphTwoContours, GlyphEndsOutOfOrder}
    \cup {GlyphOneComponent(g) : g \in 0..n}
    \cup {GlyphTwoComponents(g1, g2) : g1 \in 0..(n - 1), g2 \in {0, n - 1}}

\* The offsets of the glyphs gl laid one after the other, numGlyphs + 1 values.
RECURSIVE Offsets(_, _)
Offsets(gl, from) ==
    IF gl = <<>> THEN <<from>>
    ELSE <<from>> \o Offsets(Tail(gl), from + Len(Head(gl)))

RECURSIVE EncodeLoca(_, _)
EncodeLoca(offs, fmt) ==
    IF offs = <<>> THEN <<>>
    ELSE (IF fmt = 0 THEN U16(Head(offs) \div 2) ELSE U32(Head(offs)))
         \o EncodeLoca(Tail(offs), fmt)

\* Two components placed by point indices: g1 with byte arguments (p1, q1)
\* and the identity, then g2 with word arguments (p2, q2) and the matrix tr.
I8(v) == <<(v + 256) % 256>>
MatrixFlag(tr) ==
    CASE tr = "scale" -> WE_HAVE_A_SCALE
      [] tr = "xy" -> WE_HAVE_AN_X_AND_Y_SCALE
      [] tr = "2x2" -> WE_HAVE_A_TWO_BY_TWO
      [] OTHER -> 0
MatrixBytesOf(tr) ==
    CASE tr = "scale" -> U16(0 - 32768)
      [] tr = "xy" -> U16(0 - 16384) \o U16(16384)
      [] tr = "2x2" -> U16(0) \o U16(16384) \o U16(0 - 16384) \o U16(0)
      [] OTHER -> <<>>
GlyphAligned(g1, p1, q1, g2, p2, q2, tr) ==
    U16(65535) \o BBox
    \o U16(MORE_COMPONENTS) \o U16(g1) \o I8(p1) \o I8(q1)
    \o U16(ARG_1_AND_2_ARE_WORDS + MatrixFlag(tr)) \o U16(g2) \o U16(p2) \o U16(q2)
    \o MatrixBytesOf(tr)

\* Point indices below, inside and past the four points of a component.
ArgValues == {0 - 1, 0, 1, 9}
Matrices == {"id", "scale", "xy", "2x2"}
AlignedGlyphs ==
    {GlyphAligned(a[1], a[2], a[3], a[4], a[5], a[6], tr) :
        a \in {0, 1} \X ArgValues \X {1} \X {0, 1} \X ArgValues \X ArgValues,
        tr \in Matrices}
\* The directory entries of head, maxp and hhea.  What the reader takes from
\* these tables (indexToLocFormat, numGlyphs, numberOfHMetrics) is held by the
\* fields of the font record, so the entries carry no bytes here.
ValueTables ==
    [tag \in {"head", "maxp", "hhea"} |-> [offset |-> 0, length |-> 0]]

\* A font file holding the glyphs gl: the loca table, then the glyf table.
MakeFont(gl, fmt) ==
    LET loca == EncodeLoca(Offsets(gl, 0), fmt)
        glyf == Concat(gl)
    IN [buf |-> loca \o glyf,
        tables |-> ("loca" :> [offset |-> 0, length |-> Len(loca)])
                   @@ ("glyf" :> [offset |-> Len(loca), length |-> Len(glyf)])
                   @@ ValueTables,
        numGlyphs |-> Len(gl),
        indexToLocFormat |-> fmt,
        numberOfHMetrics |-> 0]

GlyfFonts ==
    {MakeFont(gl, fmt) : gl \in [1..MaxGlyphs -> GlyphPool(MaxGlyphs)], fmt \in {0, 1}}

\* Glyph 0 has four points, glyph 1 no bytes, glyph 2 is made of these two.
AlignFonts == {MakeFont(<<GlyphTwoContours, <<>>, g>>, 1) : g \in AlignedGlyphs}

\* A font file holding the glyphs gl and a loca table of the offsets offs,
\* whatever they are.
MakeLocaFont(gl, offs, fmt) ==
    LET loca == EncodeLoca(offs, fmt)
        glyf == Concat(gl)
    IN [buf |-> loca \o glyf,
        tables |-> ("loca" :> [offset |-> 0, length |-> Len(loca)])
                   @@ ("glyf" :> [offset |-> Len(loca), length |-> Len(glyf)])
                   @@ ValueTables,
        numGlyphs |-> Len(gl),
        indexToLocFormat |-> fmt,
        numberOfHMetrics |-> 0]

\* Two glyphs, of 30 and 16 bytes, under every loca table of offsets that are
\* a glyph boundary (0, 30, 46) or lie past the glyf table (60).
LocaGlyphs == <<GlyphTwoContours, GlyphOneComponent(0)>>
LocaOffsets == {0, 30, 46, 60}
LocaFonts ==
    {MakeLocaFont(LocaGlyphs, offs, fmt) : offs \in [1..3 -> LocaOffsets], fmt \in {0, 1}}

\* A simple glyph of one contour and n points.  Its flag stream is the entries
\* es, each a flag byte with a repeat count (-1: none); the deltas ds give, for
\* every point, the 16-bit delta and the one-byte magnitude of X, from which
\* those of Y are derived.
FlagsOfEntries(es) ==
    Concat([k \in 1..Len(es) |->
               IF es[k].rep >= 0 THEN [j \in 1..(es[k].rep + 1) |-> es[k].f + 8]
               ELSE <<es[k].f>>])
GlyphFlags(es, n) == SubSeq(FlagsOfEntries(es), 1, n)
FlagStream(es) ==
    Concat([k \in 1..Len(es) |->
               IF es[k].rep >= 0 THEN <<es[k].f + 8, es[k].rep>> ELSE <<es[k].f>>])
WordY(w) == 0 - w - 1
CoordStream(flags, ds, isY) ==
    Concat([i \in 1..Len(flags) |->
               IF Bit(flags[i], IF isY THEN 4 ELSE 2) THEN <<ds[i].mag>>
               ELSE IF ~Bit(flags[i], IF isY THEN 32 ELSE 16)
                    THEN U16(IF isY THEN WordY(ds[i].w) ELSE ds[i].w)
                    ELSE <<>>])
SimpleGlyph(es, n, ds) ==
    U16(1) \o BBox \o U16(n - 1) \o U16(0) \o FlagStream(es)
    \o CoordStream(GlyphFlags(es, n), ds, FALSE)
    \o CoordStream(GlyphFlags(es, n), ds, TRUE)

\* Flag bytes: on-curve with 16-bit deltas; short and positive; short and
\* negative; same as the previous point.
FlagBytes == {1, 55, 6, 48}
RepeatCounts == {0 - 1, 1, 200}
FlagEntries == [f : FlagBytes, rep : RepeatCounts]
Deltas == {[w |-> 100, mag |-> 5], [w |-> 32767, mag |-> 255], [w |-> 0 - 32768, mag |-> 255]}
\* The entries of a glyph are all needed for its n points: the entries before
\* the last one give fewer than n flags.
EntryLists(n) ==
    {es \in UNION {[1..k -> FlagEntries] : k \in 1..2} :
        /\ Len(FlagsOfEntries(es)) >= n
        /\ Len(FlagsOfEntries(SubSeq(es, 1, Len(es) - 1))) < n}
SimpleFonts ==
    UNION {{MakeFont(<<SimpleGlyph(es, n, ds)>>, 1)
                @@ [made |-> [entries |-> es, numPoints |-> n, deltas |-> ds]] :
               es \in EntryLists(n), ds \in [1..n -> Deltas]} : n \in 1..MaxPoints}

\* A font file holding the hmtx table of nG glyphs with the advances advs: one
\* (advance, lsb) pair per advance, then the remaining lsb values.  The lsb of
\* entry i is i - 2, so the first one reads 0xFFFF.
RECURSIVE EncodeHmtx(_, _, _)
EncodeHmtx(advs, i, n) ==
    IF i > n THEN <<>>
    ELSE (IF i <= Len(advs) THEN U16(advs[i]) ELSE <<>>) \o U16(i - 2)
         \o EncodeHmtx(advs, i + 1, n)

MakeHmtxFont(nG, advs) ==
    LET bytes == EncodeHmtx(advs, 1, Max(nG, Len(advs))) IN
    [buf |-> bytes,
     tables |-> ("hmtx" :> [offset |-> 0, length |-> Len(bytes)]) @@ ValueTables,
     numGlyphs |-> nG,
     indexToLocFormat |-> 0,
     numberOfHMetrics |-> Len(advs)]

Advances == {0, 600, 1000}
HmtxFonts ==
    UNION {UNION {{MakeHmtxFont(nG, advs) : advs \in [1..nH -> Advances]} :
                      nH \in 0..(nG + 1)} : nG \in 1..MaxGlyphs}

\* The format-12 groups of the fonts: up to k groups over the code points
\* from..MaxCp, sorted and disjoint.  A group that starts at code point 0 maps
\* to the glyph ids from 65534 on, any other to 10 * startChar + endChar on.
StartGidOf(s, e) == IF s = 0 THEN 65534 ELSE 10 * s + e
RECURSIVE GroupLists(_, _)
GroupLists(from, k) ==
    {<<>>} \cup
    (IF k = 0 THEN {}
     ELSE UNION {UNION {{<<[startChar |-> st, endChar |-> e, startGid |-> StartGidOf(st, e)]>>
                             \o rest : rest \in GroupLists(e + 1, k - 1)} :
                            e \in st..MaxCp} : st \in from..MaxCp})

Reverse(q) == [i \in 1..Len(q) |-> q[Len(q) + 1 - i]]

RECURSIVE EncodeGroups(_)
EncodeGroups(gs) ==
    IF gs = <<>> THEN <<>>
    ELSE U32(Head(gs).startChar) \o U32(Head(gs).endChar) \o U32(Head(gs).startGid)
         \o EncodeGroups(Tail(gs))

Cmap12Bytes(gs) ==
    U16(12) \o U16(0) \o U32(16 + 12 * Len(gs)) \o U32(0) \o U32(Len(gs))
    \o EncodeGroups(gs)

\* A format-4 subtable of the segments segs (endCode, startCode, idDelta,
\* idRangeOffset) followed by the glyphIdArray gia.
RECURSIVE EncodeField(_, _)
EncodeField(segs, field) ==
    IF segs = <<>> THEN <<>>
    ELSE U16(Head(segs)[field]) \o EncodeField(Tail(segs), field)

Cmap4Bytes(segs, gia) ==
    U16(4) \o U16(16 + 8 * Len(segs) + 2 * Len(gia)) \o U16(0)
    \o U16(2 * Len(segs)) \o U16(0) \o U16(0) \o U16(0)
    \o EncodeField(segs, 1) \o U16(0) \o EncodeField(segs, 2)
    \o EncodeField(segs, 3) \o EncodeField(segs, 4)
    \o Concat([k \in 1..Len(gia) |-> U16(gia[k])])

\* Code points 1..3 map to 201..203.
Cmap4Plain == Cmap4Bytes(<<<<3, 1, 200, 0>>, <<65535, 65535, 1, 0>>>>, <<>>)
\* Code points 0..2 map to 65533..65535 (idDelta -3); 4 and 5 go through the
\* glyphIdArray (0 and 77) with idDelta 5.
Cmap4Indexed ==
    Cmap4Bytes(<<<<2, 0, 0 - 3, 0>>, <<5, 4, 5, 4>>, <<65535, 65535, 1, 0>>>>, <<0, 77>>)
\* Code points 0..1 and 2..3 go through the glyphIdArray (65535, 0 and 1, 2)
\* with idDelta 5 and -3: the sums leave 0..65535 on both sides.
Cmap4Wrap ==
    Cmap4Bytes(<<<<1, 0, 5, 6>>, <<3, 2, 0 - 3, 8>>, <<65535, 65535, 1, 0>>>>,
               <<65535, 0, 1, 2>>)
\* The segments of the groups gs, each mapped by its idDelta alone (-3 for a
\* segment that starts at code point 0), with or without the closing segment.
SegDeltaOf(st, e) == IF st = 0 THEN 0 - 3 ELSE 10 * st + e
Segs4(gs, closing) ==
    [k \in 1..Len(gs) |->
        <<gs[k].endChar, gs[k].startChar, SegDeltaOf(gs[k].startChar, gs[k].endChar), 0>>]
    \o (IF closing THEN <<<<65535, 65535, 1, 0>>>> ELSE <<>>)
Cmap4Fonts ==
    {<<Cmap4Wrap>>, <<Cmap12Bytes(<<>>), Cmap4Wrap>>}
    \cup UNION {{<<Cmap4Bytes(Segs4(q, closing), <<>>)>> : closing \in BOOLEAN} :
                    q \in GroupLists(0, MaxSegs)
                          \cup {Reverse(gs) : gs \in GroupLists(0, MaxSegs)}}

\* A subtable of a format the reader does not use.
Cmap6Bytes == U16(6) \o U16(10) \o U16(0) \o U16(0) \o U16(0)

\* The cmap table holding the subtables subs, one encoding record each.
RECURSIVE EncodeRecords(_, _)
EncodeRecords(subs, off) ==
    IF subs = <<>> THEN <<>>
    ELSE U16(3) \o U16(10) \o U32(off) \o EncodeRecords(Tail(subs), off + Len(Head(subs)))

MakeCmapFont(subs) ==
    LET bytes == U16(0) \o U16(Len(subs)) \o EncodeRecords(subs, 4 + 8 * Len(subs))
                 \o Concat(subs)
    IN [buf |-> bytes,
        tables |-> ("cmap" :> [offset |-> 0, length |-> Len(bytes)]) @@ ValueTables,
        numGlyphs |-> 0,
        indexToLocFormat |-> 0,
        numberOfHMetrics |-> 0]

Cmap12Layouts(gs) ==
    {<<Cmap12Bytes(gs)>>,
     <<Cmap12Bytes(gs), Cmap4Plain>>,
     <<Cmap4Indexed, Cmap12Bytes(gs)>>,
     <<Cmap6Bytes, Cmap12Bytes(gs), Cmap12Bytes(<<>>)>>}

CmapFonts ==
    {MakeCmapFont(subs) : subs \in {<<>>, <<Cmap6Bytes>>, <<Cmap4Plain>>, <<Cmap4Indexed>>}}
    \cup {MakeCmapFont(subs) : subs \in Cmap4Fonts}
    \cup UNION {{MakeCmapFont(subs) : subs \in Cmap12Layouts(gs) \cup Cmap12Layouts(Reverse(gs))} :
                    gs \in GroupLists(0, MaxGroups)}

\* A font file with every table the reader asks for: two glyphs, their
\* metrics and a format-4 cmap.
FullFont ==
    LET loca == EncodeLoca(Offsets(LocaGlyphs, 0), 1)
        glyf == Concat(LocaGlyphs)
        hm == EncodeHmtx(<<600, 1000>>, 1, 2)
        cm == MakeCmapFont(<<Cmap4Plain>>).buf
    IN [buf |-> loca \o glyf \o hm \o cm,
        tables |-> ("loca" :> [offset |-> 0, length |-> Len(loca)])
                   @@ ("glyf" :> [offset |-> Len(loca), length |-> Len(glyf)])
                   @@ ("hmtx" :> [offset |-> Len(loca) + Len(glyf), length |-> Len(hm)])
                   @@ ("cmap" :> [offset |-> Len(loca) + Len(glyf) + Len(hm),
                                  length |-> Len(cm)])
                   @@ ValueTables,
        numGlyphs |-> 2,
        indexToLocFormat |-> 1,
        numberOfHMetrics |-> 2]

\* The same file with some tables left out of the table directory.
RequiredTags == {"head", "maxp", "hhea", "hmtx", "loca", "glyf", "cmap"}
Without(f, absent) ==
    [f EXCEPT !.tables = [tag \in DOMAIN f.tables \ absent |-> f.tables[tag]]]
TableFonts == {Without(FullFont, absent) : absent \in SUBSET RequiredTags}

NoFont ==
    [buf |-> <<>>, tables |-> <<>>, numGlyphs |-> 0, indexToLocFormat |-> 0,
     numberOfHMetrics |-> 0]

\* The sorted sequence of the numbers of S that are at least from.
RECURSIVE SortedFrom(_, _)
SortedFrom(S, from) ==
    IF from > MaxVertex THEN <<>>
    ELSE (IF from \in S THEN <<from>> ELSE <<>>) \o SortedFrom(S, from + 1)

\* The contour ends outlineToPolylineTTF can produce: strictly increasing.
ContourEndLists == {SortedFrom(S, 0) : S \in SUBSET (0..MaxVertex)}

\* The curves quadBezierAdaptive is given: ends on the corners of a square,
\* the control point on a corner or with a coordinate that is not finite.
Corners == {<<x * FixedOne, y * FixedOne>> : x, y \in {0, MaxCoord}}
Programs == {"wireframe", "stencil"}
QuadInputs ==
    {q \in [p0 : Corners, p1 : Corners \cup {<<NonFinite, 0>>, <<0, NonFinite>>},
            p2 : Corners, tolerance : {ADAPTIVE_TOLERANCE_FU(g) : g \in Programs}] :
        QuadExact(q.p0, q.p1, q.p2, q.tolerance, 0)}

\* Outlines handed to the tessellator, as the decoder returns them for
\* well-formed glyphs: every contour has a point, the ends increase and the
\* last one is the last point.  A contour is a sequence of [x, y, on].
ContourPoints == [x : {0, MaxCoord}, y : {0}, on : {0, 1}] \cup [x : {0}, y : {MaxCoord}, on : {0, 1}]
FirstContours == UNION {[1..n -> ContourPoints] : n \in 1..MaxContourPoints}
OnPoint(x, y) == [x |-> x, y |-> y, on |-> 1]
OffPoint(x, y) == [x |-> x, y |-> y, on |-> 0]
SecondContours ==
    {<<>>,
     <<OnPoint(1, 1)>>,
     <<OffPoint(1, 1)>>,
     <<OnPoint(0, 0), OnPoint(MaxCoord, 0), OnPoint(0, MaxCoord)>>,
     <<OnPoint(0, 0), OffPoint(MaxCoord, MaxCoord), OnPoint(0, MaxCoord)>>}
OutlineOf(cs) ==
    LET pts == Concat(cs) IN
    [points |-> Concat([k \in 1..Len(pts) |-> <<pts[k].x, pts[k].y>>]),
     onCurve |-> [k \in 1..Len(pts) |-> pts[k].on],
     contours |-> [c \in 1..Len(cs) |-> Len(Concat(SubSeq(cs, 1, c))) - 1]]
SegsExact(segs, tolerance) ==
    \A c \in 1..Len(segs) : \A k \in 1..Len(segs[c]) :
        segs[c][k].kind = "quad" =>
            QuadExact(segs[c][k].p0, segs[c][k].p1, segs[c][k].p2, tolerance, 0)
FlattenInputs ==
    {i \in [outline : {OutlineOf(IF b = <<>> THEN <<a>> ELSE <<a, b>>) :
                          a \in FirstContours, b \in SecondContours} \cup
                      {OutlineOf(<<b, a>>) : a \in FirstContours, b \in {<<OnPoint(1, 1)>>}},
            program : Programs] :
        SegsExact(outlineToPolylineTTF(i.outline, i.program).segs,
                  ADAPTIVE_TOLERANCE_FU(i.program))}

\* ------------------------------------------------------------ renderer
\* Two renderers share the font reader: the wireframe renderer of src/index.ts
\* and the stencil-cover renderer of src/unnamed/part_002.  Pixels are counted
\* in 1/FixedOne, which holds every pen position of the fonts laid out here.
FONT_SIZE_PX(program) == IF program = "wireframe" THEN 96 ELSE 120
LETTER_SPACING_PX == 6
\* Math.round(FONT_SIZE_PX * 1.35)
LINE_GAP_PX(program) == (FONT_SIZE_PX(program) * 135 + 50) \div 100
START_X == 60
START_Y(program) == IF program = "wireframe" THEN 160 ELSE 200
\* device.limits.minUniformBufferOffsetAlignment: the default limit of WebGPU.
UNIFORM_ALIGN == 256
MAX_GLYPHS == 4096
PARAMS_SIZE_BYTES == 32
\* The size of paramsBuffer, in bytes.
ParamsBufferSize == MAX_GLYPHS * UNIFORM_ALIGN
Space == 32

\* head.unitsPerEm, held by the font record like numGlyphs.
unitsPerEm(f) == f.unitsPerEm

\* render() is not running.
NotRendering == [phase |-> "idle", line |-> 1, ch |-> 1, k |-> 1]

\* How often getGlyphMesh has decoded the outline of gid, flattened it and
\* created its buffers (a record of the calls, not a variable of the code).
NoWork == [decoded |-> 0, tessellated |-> 0, meshes |-> 0]
WorkOf(w, gid) == IF gid \in DOMAIN w THEN w[gid] ELSE NoWork
\* Map.set
MapSet(w, gid, v) == [g \in DOMAIN w \cup {gid} |-> IF g = gid THEN v ELSE w[g]]

Null == [kind |-> "null"]

\* Mutant: a glyph without a mesh is not entered into the cache.
SetNullSkipped(gc, gid) == gc

\* GLYPH_CACHE.set(gid, null)
SetNull(gc, gid) == MapSet(gc, gid, Null)

\* getGlyphMesh from the test of the polyline on: null for a glyph without
\* points or without contours, else the mesh of the index list.  The mesh
\* stands for its buffers; id tells the buffers of one creation from those of
\* another.
MeshOf(program, f, hm, gc, w, gid, o, decoded, poly) ==
    LET was == WorkOf(w, gid) IN
    IF Len(poly.points) = 0 \/ Len(poly.contours) = 0
    THEN [kind |-> "return", mesh |-> Null, GLYPH_CACHE |-> SetNull(gc, gid),
          cache |-> o.cache, loca |-> o.loca,
          work |-> MapSet(w, gid, [decoded |-> decoded,
                                   tessellated |-> was.tessellated + 1,
                                   meshes |-> was.meshes])]
    ELSE
    LET indicesCount == IF program = "wireframe"
                        THEN Len(makeLineListIndices(poly.contours))
                        ELSE Len(makeFanIndices(poly.contours))
        mesh == [kind |-> "mesh", id |-> <<gid, was.meshes + 1>>,
                 indicesCount |-> indicesCount,
                 advanceWidthFU |-> getHMetric(f, hm, gid).advanceWidth]
    IN [kind |-> "return", mesh |-> mesh, GLYPH_CACHE |-> MapSet(gc, gid, mesh),
        cache |-> o.cache, loca |-> o.loca,
        work |-> MapSet(w, gid, [decoded |-> decoded,
                                 tessellated |-> was.tessellated + 1,
                                 meshes |-> was.meshes + 1])]

\* getGlyphMesh from the return of font.getGlyphOutline(gid) on, o being what
\* the call came to.
Outlined(program, f, hm, cache, gc, w, gid, o) ==
    IF o.kind # "return"
    THEN [kind |-> o.kind, err |-> IF o.kind = "throw" THEN o.err ELSE "", loca |-> o.loca]
    ELSE MeshOf(program, f, hm, gc, w, gid, o,
                WorkOf(w, gid).decoded + (IF gid \in DOMAIN cache THEN 0 ELSE 1),
                outlineToPolylineTTF(o.val, program))

\* getGlyphMesh(gid) with GLYPH_CACHE = gc, the points cache of the font and
\* its loca cache lc: [kind |-> "return", mesh, GLYPH_CACHE, cache, loca, work]
\* or [kind |-> "throw", err, loca].  A cached null is returned by both tests,
\* `cached !== undefined` and `GLYPH_CACHE.has(gid)`.  The fonts laid out here
\* hold simple glyphs, whose outline is read in one step.
getGlyphMesh(program, f, hm, lc, cache, gc, w, gid) ==
    IF gid \in DOMAIN gc
    THEN [kind |-> "return", mesh |-> gc[gid], GLYPH_CACHE |-> gc, cache |-> cache,
          loca |-> lc, work |-> w]
    ELSE Outlined(program, f, hm, cache, gc, w, gid, EnterOutcome(f, lc, cache, gid))

\* Mutant: the fallback of the space is given to every glyph without advance.
AdvancePxAnyZero(program, f, ch, advanceWidth) ==
    IF ~advanceWidth.defined THEN NonFinite
    ELSE IF program = "stencil" /\ advanceWidth.v = 0
    THEN (6 * FONT_SIZE_PX(program) * FixedOne) \div 10 + LETTER_SPACING_PX * FixedOne
    ELSE (advanceWidth.v * FONT_SIZE_PX(program) * FixedOne) \div unitsPerEm(f)
         + LETTER_SPACING_PX * FixedOne

\* What one character adds to penX: advanceWidth * (FONT_SIZE_PX / unitsPerEm)
\* + LETTER_SPACING_PX.  The stencil-cover renderer takes unitsPerEm * 0.6 as
\* the advance of a space whose advance is 0, which comes to FONT_SIZE_PX * 0.6
\* pixels.  An advance that getHMetric leaves undefined makes the sum NaN.
AdvancePx(program, f, ch, advanceWidth) ==
    IF ~advanceWidth.defined THEN NonFinite
    ELSE IF program = "stencil" /\ ch = Space /\ advanceWidth.v = 0
    THEN (6 * FONT_SIZE_PX(program) * FixedOne) \div 10 + LETTER_SPACING_PX * FixedOne
    ELSE (advanceWidth.v * FONT_SIZE_PX(program) * FixedOne) \div unitsPerEm(f)
         + LETTER_SPACING_PX * FixedOne

PlusPx(pen, d) == IF pen = NonFinite \/ d = NonFinite THEN NonFinite ELSE pen + d

CurrentLine == TEXT_LINES[at.line]

\* render() up to its first loop: the pen and the lists of the frame are new.
\* The wireframe renderer is called on every resize; the stencil-cover
\* renderer asks for its next frame as its last statement, so a frame that
\* threw is its last.
BeginFrame ==
    /\ pc = "idle"
    /\ \/ at.phase = "idle"
       \/ at.phase = "threw" /\ renderer = "wireframe"
    /\ penX' = START_X * FixedOne
    /\ penY' = START_Y(renderer) * FixedOne
    /\ glyphIndex' = 0
    /\ drawList' = <<>>
    /\ params' = <<>>
    /\ pass' = <<>>
    /\ at' = [phase |-> "layout", line |-> 1, ch |-> 1, k |-> 1]
    /\ UNCHANGED <<font, pc, req, result, glyfVars, metricVars, cmapVars,
                   renderer, TEXT_LINES, GLYPH_CACHE, work>>

\* What a pass of the loop over the characters reads and writes: the caches
\* of the font, GLYPH_CACHE, the lists of the frame, the glyph counter and
\* penX.  threw: the pass ended by an exception; compound: getGlyphOutline
\* met a compound glyph, which the fonts laid out here do not hold.
Frame ==
    [cmap12 |-> cmap12, cmap4 |-> cmap4, locaCache |-> locaCache,
     pointsCache |-> pointsCache, GLYPH_CACHE |-> GLYPH_CACHE, work |-> work,
     params |-> params, pass |-> pass, drawList |-> drawList,
     glyphIndex |-> glyphIndex, penX |-> penX, threw |-> FALSE, compound |-> FALSE]

\* Mutant: the glyph counter is not tested.
NeverFull(n) == FALSE

\* `if (glyphIndex >= MAX_GLYPHS) break` of the stencil-cover renderer.
Full(n) == renderer = "stencil" /\ n >= MAX_GLYPHS

\* The pass from the return of getGlyphMesh(gid) on, g being what the call
\* came to: the parameter record and the draw of a glyph with a mesh, then
\* the advance of the pen.  l and c tell the line and the character.
Laid(fr, l, c, ch, y, gid, g) ==
    IF g.kind = "push" THEN [fr EXCEPT !.compound = TRUE]
    ELSE IF g.kind = "throw" THEN [fr EXCEPT !.locaCache = g.loca, !.threw = TRUE]
    ELSE
    LET wire == renderer = "wireframe"
        record == [buffer |-> IF wire THEN Len(fr.params) + 1 ELSE 0,
                   offset |-> IF wire THEN 0 ELSE fr.glyphIndex * UNIFORM_ALIGN,
                   penX |-> fr.penX, penY |-> y, of |-> <<l, c>>]
        draw == [pipeline |-> "lines", mesh |-> g.mesh, buffer |-> record.buffer,
                 offset |-> record.offset]
        drawn == g.mesh # Null
    IN [fr EXCEPT !.locaCache = g.loca,
                  !.pointsCache = g.cache,
                  !.GLYPH_CACHE = g.GLYPH_CACHE,
                  !.work = g.work,
                  !.params = IF drawn THEN Append(@, record) ELSE @,
                  !.pass = IF drawn /\ wire THEN Append(@, draw) ELSE @,
                  !.drawList = IF drawn /\ ~wire
                               THEN Append(@, [mesh |-> g.mesh, index |-> fr.glyphIndex])
                               ELSE @,
                  !.glyphIndex = IF drawn /\ ~wire THEN @ + 1 ELSE @,
                  !.penX = PlusPx(@, AdvancePx(renderer, font, ch,
                                               getHMetric(font, hmtx, gid).advanceWidth))]

\* The pass from the return of font.mapCharToGlyph on, m being what the call
\* came to.
MappedTo(fr, l, c, ch, y, m) ==
    IF m.kind = "error" THEN [fr EXCEPT !.threw = TRUE]
    ELSE Laid(fr, l, c, ch, y, m.val,
              getGlyphMesh(renderer, font, hmtx, fr.locaCache, fr.pointsCache,
                           fr.GLYPH_CACHE, fr.work, m.val))

\* The pass after ensureCmap() came to e.
Ensured(fr, l, c, ch, y, e) ==
    IF ~e.ok THEN [fr EXCEPT !.cmap12 = e.c12, !.cmap4 = e.c4, !.threw = TRUE]
    ELSE MappedTo([fr EXCEPT !.cmap12 = e.c12, !.cmap4 = e.c4], l, c, ch, y,
                  mapCharToGlyph(font.buf, e.c12, e.c4, ch))

\* One pass of the loop over the characters of a line, after the test of the
\* glyph counter: character c of line l, ch, with penY = y.
LayoutPass(fr, l, c, ch, y) ==
    Ensured(fr, l, c, ch, y, ensureCmap(font, fr.cmap12, fr.cmap4))

\* The passes for the characters lo..hi of line l, one after the other, in
\* two halves.  A pass that threw ends the frame, and the break ends the loop:
\* no pass after it does anything.
RECURSIVE LayoutRun(_, _, _, _, _)
LayoutRun(fr, l, lo, hi, y) ==
    IF lo > hi THEN fr
    ELSE IF lo = hi
    THEN IF fr.threw \/ fr.compound \/ Full(fr.glyphIndex) THEN fr
         ELSE LayoutPass(fr, l, lo, TEXT_LINES[l][lo], y)
    ELSE LET mid == (lo + hi) \div 2
             first == LayoutRun(fr, l, lo, mid, y)
         IN IF first.threw THEN first ELSE LayoutRun(first, l, mid + 1, hi, y)

\* The variables take what the passes came to.
Took(fr) ==
    /\ ~fr.compound
    /\ cmap12' = fr.cmap12
    /\ cmap4' = fr.cmap4
    /\ locaCache' = fr.locaCache
    /\ pointsCache' = fr.pointsCache
    /\ GLYPH_CACHE' = fr.GLYPH_CACHE
    /\ work' = fr.work
    /\ params' = fr.params
    /\ pass' = fr.pass
    /\ drawList' = fr.drawList
    /\ glyphIndex' = fr.glyphIndex

\* One pass of the loop over the characters of a line.
LayoutCharTook(fr) ==
    /\ Took(fr)
    /\ penX' = fr.penX
    /\ penY' = penY
    /\ at' = IF fr.threw THEN [at EXCEPT !.phase = "threw"]
             ELSE [at EXCEPT !.ch = at.ch + 1]
LayoutChar ==
    /\ at.phase = "layout"
    /\ at.line <= Len(TEXT_LINES)
    /\ at.ch <= Len(CurrentLine)
    /\ ~Full(glyphIndex)
    /\ LayoutCharTook(LayoutPass(Frame, at.line, at.ch, CurrentLine[at.ch], penY))
    /\ UNCHANGED <<font, pc, req, result, stack, ret, before, metricVars,
                   renderer, TEXT_LINES>>

\* One pass of the loop over the lines: the loop over the characters of the
\* line run to its end, then penY += LINE_GAP_PX.
LayoutLineTook(fr) ==
    /\ Took(fr)
    /\ IF fr.threw
       THEN /\ penX' = fr.penX
            /\ penY' = penY
            /\ at' = [at EXCEPT !.phase = "threw"]
       ELSE /\ penX' = START_X * FixedOne
            /\ penY' = penY + LINE_GAP_PX(renderer) * FixedOne
            /\ at' = [at EXCEPT !.line = at.line + 1, !.ch = 1]
LayoutLine ==
    /\ at.phase = "layout"
    /\ at.line <= Len(TEXT_LINES)
    /\ at.ch = 1
    /\ LayoutLineTook(LayoutRun(Frame, at.line, 1, Len(CurrentLine), penY))
    /\ UNCHANGED <<font, pc, req, result, stack, ret, before, metricVars,
                   renderer, TEXT_LINES>>

\* The loop over the characters of a line ends, at the end of the line or by
\* the break: penY += LINE_GAP_PX, and the next line starts at START_X.
EndLine ==
    /\ at.phase = "layout"
    /\ at.line <= Len(TEXT_LINES)
    /\ at.ch > Len(CurrentLine) \/ Full(glyphIndex)
    /\ penY' = penY + LINE_GAP_PX(renderer) * FixedOne
    /\ penX' = START_X * FixedOne
    /\ at' = [at EXCEPT !.line = at.line + 1, !.ch = 1]
    /\ UNCHANGED <<font, pc, req, result, glyfVars, metricVars, cmapVars,
                   renderer, TEXT_LINES, GLYPH_CACHE, glyphIndex, drawList, params, pass,
                   work>>

\* The loop over the lines ends.  The wireframe renderer ends its pass and
\* submits; the stencil-cover renderer uploads the records, begins its pass
\* and sets the stencil pipeline.
EndLayout ==
    /\ at.phase = "layout"
    /\ at.line > Len(TEXT_LINES)
    /\ at' = IF renderer = "wireframe" THEN NotRendering
             ELSE [phase |-> "stencil", line |-> 1, ch |-> 1, k |-> 1]
    /\ UNCHANGED <<font, pc, req, result, glyfVars, metricVars, cmapVars,
                   renderer, TEXT_LINES, GLYPH_CACHE, penX, penY, glyphIndex, drawList,
                   params, pass, work>>

\* One pass of the loop `// 3. Draw Stencil`.
StencilDraw ==
    /\ at.phase = "stencil"
    /\ at.k <= Len(drawList)
    /\ pass' = Append(pass, [pipeline |-> "stencil", mesh |-> drawList[at.k].mesh,
                             buffer |-> 0,
                             offset |-> drawList[at.k].index * UNIFORM_ALIGN])
    /\ at' = [at EXCEPT !.k = at.k + 1]
    /\ UNCHANGED <<font, pc, req, result, glyfVars, metricVars, cmapVars,
                   renderer, TEXT_LINES, GLYPH_CACHE, penX, penY, glyphIndex, drawList,
                   params, work>>

\* pass.setPipeline(coverPipeline)
BeginCover ==
    /\ at.phase = "stencil"
    /\ at.k > Len(drawList)
    /\ at' = [at EXCEPT !.phase = "cover", !.k = 1]
    /\ UNCHANGED <<font, pc, req, result, glyfVars, metricVars, cmapVars,
                   renderer, TEXT_LINES, GLYPH_CACHE, penX, penY, glyphIndex, drawList,
                   params, pass, work>>

\* Mutant: the cover draws are bound to the first parameter record.
CoverDrawUnbound ==
    /\ at.phase = "cover"
    /\ at.k <= Len(drawList)
    /\ pass' = Append(pass, [pipeline |-> "cover", mesh |-> drawList[at.k].mesh,
                             buffer |-> 0, offset |-> 0])
    /\ at' = [at EXCEPT !.k = at.k + 1]
    /\ UNCHANGED <<font, pc, req, result, glyfVars, metricVars, cmapVars,
                   renderer, TEXT_LINES, GLYPH_CACHE, penX, penY, glyphIndex, drawList,
                   params, work>>

\* One pass of the loop `// 4. Draw Cover`.
CoverDraw ==
    /\ at.phase = "cover"
    /\ at.k <= Len(drawList)
    /\ pass' = Append(pass, [pipeline |-> "cover", mesh |-> drawList[at.k].mesh,
                             buffer |-> 0,
                             offset |-> drawList[at.k].index * UNIFORM_ALIGN])
    /\ at' = [at EXCEPT !.k = at.k + 1]
    /\ UNCHANGED <<font, pc, req, result, glyfVars, metricVars, cmapVars,
                   renderer, TEXT_LINES, GLYPH_CACHE, penX, penY, glyphIndex, drawList,
                   params, work>>

\* The loop `// 3. Draw Stencil` run to its end, then
\* pass.setPipeline(coverPipeline).
StencilPass ==
    /\ at.phase = "stencil"
    /\ at.k = 1
    /\ pass' = pass \o [k \in 1..Len(drawList) |->
                            [pipeline |-> "stencil", mesh |-> drawList[k].mesh,
                             buffer |-> 0, offset |-> drawList[k].index * UNIFORM_ALIGN]]
    /\ at' = [at EXCEPT !.phase = "cover", !.k = 1]
    /\ UNCHANGED <<font, pc, req, result, glyfVars, metricVars, cmapVars,
                   renderer, TEXT_LINES, GLYPH_CACHE, penX, penY, glyphIndex, drawList,
                   params, work>>

\* The loop `// 4. Draw Cover` run to its end, then pass.end(), the submit and
\* requestAnimationFrame(render).
CoverPass ==
    /\ at.phase = "cover"
    /\ at.k = 1
    /\ pass' = pass \o [k \in 1..Len(drawList) |->
                            [pipeline |-> "cover", mesh |-> drawList[k].mesh,
                             buffer |-> 0, offset |-> drawList[k].index * UNIFORM_ALIGN]]
    /\ at' = NotRendering
    /\ UNCHANGED <<font, pc, req, result, glyfVars, metricVars, cmapVars,
                   renderer, TEXT_LINES, GLYPH_CACHE, penX, penY, glyphIndex, drawList,
                   params, work>>

\* pass.end(), the submit and requestAnimationFrame(render).
EndFrame ==
    /\ at.phase = "cover"
    /\ at.k > Len(drawList)
    /\ at' = NotRendering
    /\ UNCHANGED <<font, pc, req, result, glyfVars, metricVars, cmapVars,
                   renderer, TEXT_LINES, GLYPH_CACHE, penX, penY, glyphIndex, drawList,
                   params, pass, work>>

\* No frame was rendered yet: the glyph cache is empty.
FreshRender ==
    /\ GLYPH_CACHE = <<>>
    /\ penX = 0
    /\ penY = 0
    /\ glyphIndex = 0
    /\ drawList = <<>>
    /\ params = <<>>
    /\ pass = <<>>
    /\ at = NotRendering
    /\ work = <<>>

NoText ==
    /\ renderer = "wireframe"
    /\ TEXT_LINES = <<>>

\* The fonts that are laid out: glyph 0 is empty, glyph 1 a triangle of
\* on-curve points, glyph 2 empty or a single point; the advances of glyphs 0
\* and 1 are 500 and 600, that of glyph 2 is 0 or 1000.  Code points 1 and 2
\* map to glyphs 1 and 2, the space to glyph 2, and code point 40 to a glyph
\* the font does not have.  `made` keeps what the file was made from.
ShortPoint == [w |-> 100, mag |-> 5]
GlyphTriangle ==
    SimpleGlyph(<<[f |-> 55, rep |-> 1], [f |-> 55, rep |-> 0 - 1]>>, 3,
                <<ShortPoint, ShortPoint, ShortPoint>>)
GlyphPoint == SimpleGlyph(<<[f |-> 55, rep |-> 0 - 1]>>, 1, <<ShortPoint>>)
CharMap == (1 :> 1) @@ (2 :> 2) @@ (Space :> 2) @@ (40 :> 9)
RenderCmap ==
    Cmap4Bytes(<<<<2, 1, 0, 0>>, <<Space, Space, CharMap[Space] - Space, 0>>,
                 <<40, 40, CharMap[40] - 40, 0>>, <<65535, 65535, 1, 0>>>>, <<>>)
RenderFont(glyph2, advance2, upm) ==
    LET gl == <<<<>>, GlyphTriangle, glyph2>>
        advs == <<500, 600, advance2>>
        loca == EncodeLoca(Offsets(gl, 0), 1)
        glyf == Concat(gl)
        hm == EncodeHmtx(advs, 1, 3)
        cm == MakeCmapFont(<<RenderCmap>>).buf
    IN [buf |-> loca \o glyf \o hm \o cm,
        tables |-> ("loca" :> [offset |-> 0, length |-> Len(loca)])
                   @@ ("glyf" :> [offset |-> Len(loca), length |-> Len(glyf)])
                   @@ ("hmtx" :> [offset |-> Len(loca) + Len(glyf), length |-> Len(hm)])
                   @@ ("cmap" :> [offset |-> Len(loca) + Len(glyf) + Len(hm),
                                  length |-> Len(cm)])
                   @@ ValueTables,
        numGlyphs |-> 3,
        indexToLocFormat |-> 1,
        numberOfHMetrics |-> 3,
        unitsPerEm |-> upm,
        made |-> [advances |-> advs, gidOf |-> CharMap]]
RenderFonts ==
    {RenderFont(<<>>, a, 1024) : a \in {0, 1000}}
    \cup {RenderFont(GlyphPoint, a, 2048) : a \in {0, 1000}}

\* The texts: a line of up to MaxLineLen characters alone, before or after an
\* empty line, or before a line of one character.
Chars == DOMAIN CharMap
TextLines == UNION {[1..n -> Chars] : n \in 0..MaxLineLen}
Texts ==
    {<<>>}
    \cup {<<l>> : l \in TextLines}
    \cup {<<l, m>> : l \in TextLines, m \in {<<>>, <<1>>}}
    \cup {<<<<>>, l>> : l \in TextLines}

\* The long texts: a line of about as many glyphs as the draw list may hold,
\* alone or after a character without a mesh, then a line of one glyph.
LongTexts ==
    {<<first \o [k \in 1..n |-> 1], <<1>>>> :
        first \in {<<>>, <<2>>}, n \in (MAX_GLYPHS - 1)..(MAX_GLYPHS + MaxOver)}

\* ------------------------------------------------------------ specification
\* The state after construction; nothing is decoded or cached yet.
FreshCore ==
    /\ locaCache = NotLoaded
    /\ pointsCache = <<>>
    /\ stack = <<>>
    /\ pc = "idle"
    /\ ret = EmptyOutline
    /\ before = <<>>
    /\ result = NoResult
    /\ cmap12 = NoCmap12
    /\ cmap4 = NoCmap4
    /\ FreshRender

\* No text is laid out by the specifications of the font reader alone.
Fresh ==
    /\ FreshCore
    /\ NoText

InitGlyf ==
    /\ font \in GlyfFonts
    /\ Fresh
    /\ hmtx = NoHmtx
    /\ req = 0

NextGlyf ==
    \/ \E gid \in (0 - 1)..MaxGlyphs : Call(gid)
    \/ Component
    \/ Resume

SpecGlyf == InitGlyf /\ [][NextGlyf]_vars

\* new TrueTypeFont(buf): the table directory is read, then ensureHhea() and
\* ensureHmtx() run.  A throw leaves no object; the caller may try again.
Construct ==
    /\ pc = "new"
    /\ UNCHANGED <<font, req, glyfVars, cmapVars, renderVars>>
    /\ LET missing == IF ~HasTable(font, "hhea") THEN TableMissing("hhea")
                      ELSE IF ~HasTable(font, "hmtx") THEN TableMissing("hmtx")
                      ELSE IF ~HasTable(font, "maxp") THEN TableMissing("maxp")
                      ELSE ensureHmtx(font)
       IN IF missing.kind = "error"
          THEN pc' = "new" /\ result' = missing /\ hmtx' = hmtx
          ELSE pc' = "idle" /\ result' = Ok("font") /\ hmtx' = missing.val

\* Before construction.
InitTables ==
    /\ font \in TableFonts
    /\ locaCache = NotLoaded
    /\ pointsCache = <<>>
    /\ stack = <<>>
    /\ pc = "new"
    /\ ret = EmptyOutline
    /\ before = <<>>
    /\ result = NoResult
    /\ cmap12 = NoCmap12
    /\ cmap4 = NoCmap4
    /\ hmtx = NoHmtx
    /\ req = 0
    /\ FreshRender
    /\ NoText

NextTables ==
    \/ Construct
    \/ \E gid \in (0 - 1)..2 : Call(gid)
    \/ Component
    \/ Resume
    \/ \E gid \in 0..2 : GetHMetric(gid)
    \/ \E codepoint \in 0..2 : MapCharToGlyph(codepoint)

SpecTables == InitTables /\ [][NextTables]_vars

InitAlign ==
    /\ font \in AlignFonts
    /\ Fresh
    /\ hmtx = NoHmtx
    /\ req = 0

SpecAlign == InitAlign /\ [][NextGlyf]_vars

InitSimple ==
    /\ font \in SimpleFonts
    /\ Fresh
    /\ hmtx = NoHmtx
    /\ req = 0

NextSimple == Call(0)

SpecSimple == InitSimple /\ [][NextSimple]_vars

InitLoca ==
    /\ font \in LocaFonts
    /\ Fresh
    /\ hmtx = NoHmtx
    /\ req = 0

SpecLoca == InitLoca /\ [][NextGlyf]_vars

\* The constructor has run ensureHhea() and ensureHmtx().
InitHmtx ==
    /\ font \in HmtxFonts
    /\ Fresh
    /\ hmtx = ensureHmtx(font).val
    /\ req = 0

NextHmtx == \E gid \in (0 - 1)..(MaxGlyphs + 1) : GetHMetric(gid)

SpecHmtx == InitHmtx /\ [][NextHmtx]_vars

InitCmap ==
    /\ font \in CmapFonts
    /\ Fresh
    /\ hmtx = NoHmtx
    /\ req = 0

\* Code points at and past the end of the BMP.
HighCps == {65535, 65536}

NextCmap == \E codepoint \in (0..MaxCp) \cup HighCps : MapCharToGlyph(codepoint)

SpecCmap == InitCmap /\ [][NextCmap]_vars

InitLines ==
    /\ font = NoFont
    /\ Fresh
    /\ hmtx = NoHmtx
    /\ req \in ContourEndLists

NextLines == MakeLineListIndices

SpecLines == InitLines /\ [][NextLines]_vars

InitQuad ==
    /\ font = NoFont
    /\ Fresh
    /\ hmtx = NoHmtx
    /\ req \in QuadInputs

NextQuad == QuadBezierAdaptive

SpecQuad == InitQuad /\ [][NextQuad]_vars

InitFlatten ==
    /\ font = NoFont
    /\ Fresh
    /\ hmtx = NoHmtx
    /\ req \in FlattenInputs

NextFlatten == OutlineToPolylineTTF

SpecFlatten == InitFlatten /\ [][NextFlatten]_vars

InitFan ==
    /\ font = NoFont
    /\ Fresh
    /\ hmtx = NoHmtx
    /\ req \in ContourEndLists

NextFan == MakeFanIndices

SpecFan == InitFan /\ [][NextFan]_vars

\* The renderer after the font was constructed, before its first frame.
InitRender ==
    /\ font \in RenderFonts
    /\ FreshCore
    /\ hmtx = ensureHmtx(font).val
    /\ req = 0
    /\ renderer \in Programs
    /\ TEXT_LINES \in Texts

NextRender ==
    \/ BeginFrame
    \/ LayoutChar
    \/ EndLine
    \/ EndLayout
    \/ StencilDraw
    \/ BeginCover
    \/ CoverDraw
    \/ EndFrame

SpecRender == InitRender /\ [][NextRender]_vars

\* The stencil-cover renderer with more glyphs than its draw list may hold.
InitLong ==
    /\ font \in RenderFonts
    /\ FreshCore
    /\ hmtx = ensureHmtx(font).val
    /\ req = 0
    /\ renderer = "stencil"
    /\ TEXT_LINES \in LongTexts

\* The loops of a frame, each run to its end.
NextLong ==
    \/ BeginFrame
    \/ LayoutLine
    \/ EndLayout
    \/ StencilPass
    \/ CoverPass

SpecLong == InitLong /\ [][NextLong]_vars


\* ============================================================== properties
\* What the font stores for glyph g, read with the model's own readers.
GlyphStart(f, g) == getTable(f, "glyf").offset + ensureLoca(f).val[g + 1]
GlyphEnd(f, g) == getTable(f, "glyf").offset + ensureLoca(f).val[g + 2]
IsGid(f, g) == g >= 0 /\ g < f.numGlyphs
StoredContours(f, g) ==
    IF GlyphStart(f, g) = GlyphEnd(f, g) THEN 0 ELSE getInt16(f.buf, GlyphStart(f, g))
IsCompound(f, g) == IsGid(f, g) /\ StoredContours(f, g) < 0
IsSimple(f, g) == IsGid(f, g) /\ StoredContours(f, g) > 0

\* The component headers of a compound glyph, in file order, read from p on.
RECURSIVE ComponentsFrom(_, _)
ComponentsFrom(b, p) ==
    LET h == ReadComponent(b, p) IN
    IF ~h.ok THEN <<>>
    ELSE IF Bit(h.flags, MORE_COMPONENTS) THEN <<h>> \o ComponentsFrom(b, h.p)
    ELSE <<h>>
ComponentsOf(f, g) == ComponentsFrom(f.buf, GlyphStart(f, g) + 10)

\* The outline of gid decoded from the bytes alone: no cache, no stack limit.
\* fuel bounds the nesting; a font of n glyphs nests deeper than n only on a
\* cycle, which is reported as "diverges".
RECURSIVE FreshOutline(_, _, _)
RECURSIVE FreshLoop(_, _, _)
FreshOutline(f, gid, fuel) ==
    IF fuel = 0 THEN [kind |-> "diverges"]
    ELSE
    LET o == EnterOutcome(f, NotLoaded, <<>>, gid) IN
    CASE o.kind = "return" -> Ok(o.val)
      [] o.kind = "throw" -> Err(o.err)
      [] o.kind = "push" -> FreshLoop(f, o.frame, fuel)
FreshLoop(f, fr, fuel) ==
    LET h == ReadComponent(f.buf, fr.p) IN
    IF ~h.ok THEN Err("RangeError")
    ELSE
    LET sub == FreshOutline(f, h.compGid, fuel - 1) IN
    IF sub.kind # "ok" THEN sub
    ELSE
    LET fr2 == AddComponent([fr EXCEPT !.h = h, !.p = h.p], sub.val) IN
    IF Bit(h.flags, MORE_COMPONENTS) THEN FreshLoop(f, fr2, fuel)
    ELSE FinishCompound(f.buf, fr2)

Returned_ok == pc = "idle" /\ result.kind = "ok"
NumPoints(o) == Len(o.points) \div 2
NonDecreasing(q) == \A i \in 1..(Len(q) - 1) : q[i] <= q[i + 1]

\* C1: a compound glyph whose components lead back to a glyph that is being
\* decoded fails with a CompoundCycle error instead of being entered again:
\* no glyph id is ever held by two active frames, and no call ends by
\* exhausting the call stack.
C1_CycleIsDetected ==
    /\ \A i, j \in 1..Len(stack) : i # j => stack[i].gid # stack[j].gid
    /\ (pc = "idle" /\ result.kind = "error")
           => result.err # "RangeError: Maximum call stack size exceeded"

\* C2: the outline cache only gains entries; an entry, once written, is never
\* removed and never replaced by a different outline.
C2_CacheInsertOnly ==
    [][\A g \in DOMAIN pointsCache :
          g \in DOMAIN pointsCache' /\ pointsCache'[g] = pointsCache[g]]_vars

\* C2 witness: a compound glyph has been decoded and cached next to an entry
\* that was in the cache before the call.
C2_Witness ==
    /\ Returned_ok
    /\ IsCompound(font, req)
    /\ req \in DOMAIN pointsCache /\ req \notin DOMAIN before
    /\ before # <<>>
    /\ pointsCache[req].points # <<>>

\* C3: whatever the cache held when the call was made, a returned outline is
\* the one decoded from the font bytes alone.
C3_SameOutlineOnAnyCache ==
    Returned_ok =>
        /\ FreshOutline(font, req, font.numGlyphs + 1).kind = "ok"
        /\ result.val = FreshOutline(font, req, font.numGlyphs + 1).val

\* C3 witness: a compound glyph returned while one of its components was
\* cached and it was not.
C3_Witness ==
    /\ Returned_ok
    /\ IsCompound(font, req)
    /\ req \notin DOMAIN before
    /\ \E k \in 1..Len(ComponentsOf(font, req)) :
           ComponentsOf(font, req)[k].compGid \in DOMAIN before
    /\ result.val.points # <<>>

\* C3 second witness: the glyph itself was cached when it was asked for.
C3_WitnessCached ==
    Returned_ok /\ IsCompound(font, req) /\ req \in DOMAIN before

\* The glyphs an outline of g is assembled from: g and, for a compound glyph,
\* the glyphs of its components, to any depth.
RECURSIVE Parts(_, _, _)
Parts(f, g, fuel) ==
    IF ~IsGid(f, g) \/ fuel = 0 THEN {}
    ELSE IF ~IsCompound(f, g) THEN {g}
    ELSE {g} \cup UNION {Parts(f, ComponentsOf(f, g)[k].compGid, fuel - 1) :
                             k \in 1..Len(ComponentsOf(f, g))}

StoredEndPts(f, g) == ReadEndPts(f.buf, GlyphStart(f, g) + 10, StoredContours(f, g))
StoredEndsOrdered(f, g) ==
    \A h \in Parts(f, g, f.numGlyphs + 1) :
        IsSimple(f, h) => NonDecreasing(StoredEndPts(f, h))

LastIsLastPoint(o) ==
    o.points # <<>> =>
        /\ o.contours # <<>>
        /\ o.contours[Len(o.contours)] = NumPoints(o) - 1

C5_OnCurvePerPoint ==
    Returned_ok => Len(result.val.points) = 2 * Len(result.val.onCurve)

\* C5 witness: a compound outline of two components that both have points.
C5_Witness ==
    /\ Returned_ok
    /\ IsCompound(font, req)
    /\ Len(ComponentsOf(font, req)) = 2
    /\ \A k \in 1..2 : pointsCache[ComponentsOf(font, req)[k].compGid].points # <<>>
    /\ result.val.onCurve # <<>>

\* The points and the contours of the components before the k-th one.
RECURSIVE PtsBefore(_, _, _)
PtsBefore(cache, hs, k) ==
    IF k = 1 THEN 0
    ELSE PtsBefore(cache, hs, k - 1) + NumPoints(cache[hs[k - 1].compGid])
RECURSIVE EndsBefore(_, _, _)
EndsBefore(cache, hs, k) ==
    IF k = 1 THEN 0
    ELSE EndsBefore(cache, hs, k - 1) + Len(cache[hs[k - 1].compGid].contours)

IdentityXY(h) ==
    Bit(h.flags, ARGS_ARE_XY_VALUES) /\ h.a = 1 /\ h.b = 0 /\ h.c = 0 /\ h.d = 1

\* C6: a component with the identity transform and ArgsAreXY appears in the
\* parent translated by (arg1, arg2), its onCurve flags unchanged, its contour
\* ends raised by the number of parent points before it; the components follow
\* one another in file order.
C6_IdentityXYTranslates ==
    (Returned_ok /\ IsCompound(font, req)) =>
        LET hs == ComponentsOf(font, req)
            o == result.val
        IN
        /\ NumPoints(o) = PtsBefore(pointsCache, hs, Len(hs) + 1)
        /\ Len(o.contours) = EndsBefore(pointsCache, hs, Len(hs) + 1)
        /\ \A k \in 1..Len(hs) :
              IdentityXY(hs[k]) =>
                LET sub == pointsCache[hs[k].compGid]
                    np == PtsBefore(pointsCache, hs, k)
                    nc == EndsBefore(pointsCache, hs, k)
                IN
                /\ \A i \in 1..NumPoints(sub) :
                      /\ o.points[2 * (np + i) - 1] = sub.points[2 * i - 1] + hs[k].arg1
                      /\ o.points[2 * (np + i)] = sub.points[2 * i] + hs[k].arg2
                      /\ o.onCurve[np + i] = sub.onCurve[i]
                /\ \A j \in 1..Len(sub.contours) :
                      o.contours[nc + j] = sub.contours[j] + np

\* C6 witness: an identity/XY component with points, placed after parent
\* points that an earlier component contributed.
C6_Witness ==
    /\ Returned_ok
    /\ IsCompound(font, req)
    /\ LET hs == ComponentsOf(font, req) IN
       /\ Len(hs) = 2
       /\ IdentityXY(hs[2])
       /\ PtsBefore(pointsCache, hs, 2) > 0
       /\ pointsCache[hs[2].compGid].contours # <<>>

\* The k-th advance (0-based) as the bytes of the hmtx table hold it.
StoredAdvance(f, k) ==
    LET o == f.tables["hmtx"].offset + 4 * k IN f.buf[o + 1] * 256 + f.buf[o + 2]

\* C7: for gid >= numberOfHMetrics, getHMetric(gid).advanceWidth is
\* getHMetric(numberOfHMetrics - 1).advanceWidth, the last stored advance; for
\* a glyph id below numberOfHMetrics it is the gid-th advance stored in hmtx.
C7_AdvanceSaturates ==
    result.kind = "ok" =>
        LET nH == font.numberOfHMetrics
            adv == result.val.advanceWidth
        IN
        /\ req >= nH => adv = getHMetric(font, hmtx, nH - 1).advanceWidth
        /\ (req >= nH /\ nH >= 1) =>
               adv = [defined |-> TRUE, v |-> StoredAdvance(font, nH - 1)]
        /\ (0 <= req /\ req < nH) =>
               adv = [defined |-> TRUE, v |-> StoredAdvance(font, req)]

\* C7 witness: a glyph past the boundary glyph numberOfHMetrics got the last
\* of several advances, which is not the first one.
C7_Witness ==
    /\ result.kind = "ok"
    /\ font.numberOfHMetrics >= 2
    /\ req > font.numberOfHMetrics
    /\ result.val.advanceWidth.defined
    /\ result.val.advanceWidth.v = StoredAdvance(font, font.numberOfHMetrics - 1)
    /\ result.val.advanceWidth.v # StoredAdvance(font, 0)

\* The contour (1-based) vertex j lies in, and the first vertex of contour c.
ContourOf(ends, j) == CHOOSE c \in 1..Len(ends) :
                          ends[c] >= j /\ \A d \in 1..(c - 1) : ends[d] < j
StartOf(ends, c) == IF c = 1 THEN 0 ELSE ends[c - 1] + 1
IsEdge(idx, a, b) == \E k \in 1..(Len(idx) \div 2) : idx[2 * k - 1] = a /\ idx[2 * k] = b

\* C8: for each contour spanning the vertices [s, e], makeLineListIndices
\* emits the pairs (i, i + 1) for i in [s, e), then the closing pair (e, s),
\* and nothing else; so every contour's edge (end, start) is there and no edge
\* joins vertices of two contours.
C8_LineListClosesContours ==
    result.kind = "ok" =>
        LET ends == req
            idx == result.val
            n == IF ends = <<>> THEN 0 ELSE ends[Len(ends)] + 1
        IN
        /\ Len(idx) = 2 * n
        /\ \A j \in 0..(n - 1) :
              LET c == ContourOf(ends, j) IN
              /\ idx[2 * j + 1] = j
              /\ idx[2 * j + 2] = IF j = ends[c] THEN StartOf(ends, c) ELSE j + 1
        /\ \A c \in 1..Len(ends) : IsEdge(idx, ends[c], StartOf(ends, c))
        /\ \A k \in 1..(Len(idx) \div 2) :
              ContourOf(ends, idx[2 * k - 1]) = ContourOf(ends, idx[2 * k])

\* C8 witness: two contours of three or more vertices each.
C8_Witness ==
    /\ result.kind = "ok"
    /\ Len(req) = 2
    /\ req[1] >= 2
    /\ req[2] - req[1] >= 3
    /\ IsEdge(result.val, req[2], req[1] + 1)

\* The groups of the format-12 subtable the reader has remembered, as the
\* bytes hold them.
Groups12 ==
    [k \in 1..cmap12.nGroups |->
        LET g == cmap12.sub + 16 + (k - 1) * 12 IN
        [startChar |-> getUint32(font.buf, g),
         endChar |-> getUint32(font.buf, g + 4),
         startGid |-> getUint32(font.buf, g + 8)]]
Sorted12 ==
    \A k \in 1..(Len(Groups12) - 1) :
        /\ Groups12[k].startChar < Groups12[k + 1].startChar
        /\ Groups12[k].endChar < Groups12[k + 1].startChar
Contains(g, cp) == g.startChar <= cp /\ cp <= g.endChar
InGroup12(cp) == \E k \in 1..Len(Groups12) : Contains(Groups12[k], cp)
Mapped == pc = "idle" /\ result.kind # "none"

\* C9: with a format-12 subtable whose groups are sorted by startChar and do
\* not overlap, mapCharToGlyph(cp) returns startGid + (cp - startChar) of the
\* group that contains cp whenever there is one, whatever a format-4 subtable
\* maps cp to.
C9_Format12Hit ==
    (Mapped /\ cmap12.present /\ Sorted12) =>
        \A k \in 1..Len(Groups12) :
            Contains(Groups12[k], req) =>
                result = Ok(Groups12[k].startGid + (req - Groups12[k].startChar))

\* C9 witness: a hit in the last of three groups, in a font whose format-4
\* subtable maps the code point to another glyph.
C9_Witness ==
    /\ Mapped
    /\ cmap12.present /\ cmap4.present
    /\ Sorted12
    /\ Len(Groups12) = 3
    /\ Contains(Groups12[3], req)
    /\ result = Ok(Groups12[3].startGid + (req - Groups12[3].startChar))
    /\ Lookup4(font.buf, cmap4, req).kind = "ok"
    /\ Lookup4(font.buf, cmap4, req).val \notin {0, result.val}

\* What the format-4 segments map cp to, by a scan of the segments in order.
Segment4(k) ==
    [endCode |-> getUint16(font.buf, cmap4.endCode + 2 * k),
     startCode |-> getUint16(font.buf, cmap4.startCode + 2 * k),
     idDelta |-> getInt16(font.buf, cmap4.idDelta + 2 * k),
     idRangeOffset |-> getUint16(font.buf, cmap4.idRangeOff + 2 * k)]
Format4Maps(cp) ==
    IF ~cmap4.present THEN 0
    ELSE
    LET segs == {k \in 0..(cmap4.segCount - 1) : Segment4(k).endCode >= cp} IN
    IF segs = {} THEN 0
    ELSE
    LET k == CHOOSE m \in segs : \A m2 \in segs : m <= m2
        sg == Segment4(k)
    IN
    IF sg.startCode > cp THEN 0
    ELSE IF sg.idRangeOffset = 0 THEN (cp + sg.idDelta) % 65536
    ELSE LET v == getUint16(font.buf, cmap4.idRangeOff + 2 * k + sg.idRangeOffset
                                          + 2 * (cp - sg.startCode))
         IN IF v = 0 THEN 0 ELSE (v + sg.idDelta) % 65536

EndCodesSorted ==
    \A k \in 0..(cmap4.segCount - 2) : Segment4(k).endCode <= Segment4(k + 1).endCode

\* C10 (as stated): format 4 is consulted only when the font has no format-12
\* subtable; with a format-12 subtable none of whose groups contains cp the
\* result is 0.
C10_Format12MissIsZero ==
    (Mapped /\ cmap12.present /\ ~InGroup12(req)) => result = Ok(0)

\* C10 (amended): format 4 is consulted when the font has no format-12
\* subtable and also when the format-12 search finds no group for cp; the
\* result is then what the format-4 subtable maps cp to, and 0 when the font
\* has no format-4 subtable.
C10_Format12MissFallsBack ==
    (Mapped /\ (~cmap12.present \/ ~InGroup12(req))) =>
        /\ result = IF cmap4.present THEN Lookup4(font.buf, cmap4, req) ELSE Ok(0)
        /\ EndCodesSorted => result = Ok(Format4Maps(req))

\* C10 witness: a code point outside every format-12 group that the format-4
\* subtable maps to a glyph.
C10_Witness ==
    /\ Mapped
    /\ cmap12.present /\ cmap4.present
    /\ Groups12 # <<>>
    /\ ~InGroup12(req)
    /\ result.kind = "ok" /\ result.val # 0

\* The format-4 subtable is the one that answers: no format-12 group holds
\* the code point.
Consulted4 == Mapped /\ cmap4.present /\ (~cmap12.present \/ ~InGroup12(req))
\* The first segment, in file order, with endCode >= cp; segCount if none.
RECURSIVE FirstSeg4(_, _)
FirstSeg4(cp, k) ==
    IF k >= cmap4.segCount \/ Segment4(k).endCode >= cp THEN k ELSE FirstSeg4(cp, k + 1)

\* C11: in the format-4 lookup with endCode sorted ascending the segment
\* selected for cp is the smallest i with endCode[i] >= cp, as a linear scan
\* finds it; with no such segment, or with startCode[i] > cp, the result is 0.
C11_Format4Segment ==
    (Consulted4 /\ EndCodesSorted) =>
        LET i == FirstSeg4(req, 0) IN
        /\ Search4(font.buf, cmap4.endCode, 0, cmap4.segCount - 1, req) = i
        /\ (i = cmap4.segCount \/ Segment4(i).startCode > req) => result = Ok(0)
        /\ (i < cmap4.segCount /\ Segment4(i).startCode <= req
              /\ Segment4(i).idRangeOffset = 0) =>
               result = Ok((req + Segment4(i).idDelta + 65536) % 65536)

\* C11 witness: a code point equal to the endCode of the second of three
\* segments, mapped by that segment.
C11_Witness ==
    /\ Consulted4 /\ EndCodesSorted
    /\ cmap4.segCount = 3
    /\ FirstSeg4(req, 0) = 1
    /\ Segment4(1).endCode = req
    /\ Segment4(0).endCode < req
    /\ result.kind = "ok" /\ result.val # 0

\* C11 second witness: no segment has endCode >= cp.
C11_WitnessNoSegment ==
    /\ Consulted4 /\ EndCodesSorted
    /\ cmap4.segCount >= 2
    /\ FirstSeg4(req, 0) = cmap4.segCount
    /\ result = Ok(0)

\* idDelta and a glyphIdArray value as unsigned 16-bit numbers.
RawDelta(i) == getUint16(font.buf, cmap4.idDelta + 2 * i)
GlyphIdAt(i, cp) ==
    getUint16(font.buf, cmap4.idRangeOff + 2 * i + Segment4(i).idRangeOffset
                        + 2 * (cp - Segment4(i).startCode))

\* C12: in the format-4 lookup, for the segment i that holds cp: with
\* idRangeOffset[i] = 0 the result is (cp + idDelta[i]) mod 65536; otherwise
\* the value g is read at the address of idRangeOffset[i] + idRangeOffset[i]
\* + 2 * (cp - startCode[i]) and the result is 0 when g is 0, else
\* (g + idDelta[i]) mod 65536, idDelta being a signed 16-bit value.  The
\* result is never negative.
C12_Format4Arithmetic ==
    (Consulted4 /\ EndCodesSorted) =>
        LET i == FirstSeg4(req, 0) IN
        /\ result.kind = "ok" /\ result.val >= 0 /\ result.val <= 65535
        /\ (i < cmap4.segCount /\ Segment4(i).startCode <= req) =>
              /\ Segment4(i).idDelta =
                     IF RawDelta(i) >= 32768 THEN RawDelta(i) - 65536 ELSE RawDelta(i)
              /\ Segment4(i).idRangeOffset = 0 =>
                     result.val = (req + RawDelta(i)) % 65536
              /\ (Segment4(i).idRangeOffset # 0 /\ GlyphIdAt(i, req) = 0) =>
                     result.val = 0
              /\ (Segment4(i).idRangeOffset # 0 /\ GlyphIdAt(i, req) # 0) =>
                     result.val = (GlyphIdAt(i, req) + RawDelta(i)) % 65536

\* C12 witness: a glyphIdArray value of 1 with idDelta -3 gives 65534.
C12_Witness ==
    /\ Consulted4 /\ EndCodesSorted
    /\ FirstSeg4(req, 0) < cmap4.segCount
    /\ Segment4(FirstSeg4(req, 0)).idRangeOffset # 0
    /\ Segment4(FirstSeg4(req, 0)).idDelta = 0 - 3
    /\ GlyphIdAt(FirstSeg4(req, 0), req) = 1
    /\ result = Ok(65534)

\* C12 second witness: code point 0 with idDelta -3 and no idRangeOffset
\* gives 65533.
C12_WitnessDelta ==
    /\ Consulted4 /\ EndCodesSorted
    /\ req = 0
    /\ FirstSeg4(req, 0) < cmap4.segCount
    /\ Segment4(FirstSeg4(req, 0)).idRangeOffset = 0
    /\ Segment4(FirstSeg4(req, 0)).idDelta = 0 - 3
    /\ result = Ok(65533)

\* C13: mapCharToGlyph returns a glyph id in 0..65535 for every code point and
\* every cmap content, on the format-12 path and on the format-4 path, and 0
\* without failing when the code point is unmapped or the font has neither
\* subtable.
C13_GlyphIdIsUint16 ==
    Mapped =>
        /\ result.kind = "ok"
        /\ result.val \in 0..65535
        /\ (~cmap12.present /\ ~cmap4.present) => result = Ok(0)

GidOutOfRange ==
    /\ pc' = "idle"
    /\ stack' = <<>>
    /\ result' = Err("gid out of range")
    /\ pointsCache' = pointsCache

\* C14: getGlyphOutline(gid) with gid < 0 or gid >= numGlyphs throws the
\* gid-out-of-range error and returns no outline, whatever the cache holds;
\* so does the decoding of a compound glyph when it comes to a component whose
\* glyph id is out of range.  Nothing is cached by the failing call.
C14_GidOutOfRange ==
    [][/\ (pc = "idle" /\ ~IsGid(font, req')) => GidOutOfRange
       /\ (pc = "loop" /\ Len(stack) < MaxStack
             /\ ReadComponent(font.buf, stack[Len(stack)].p).ok
             /\ ~IsGid(font, ReadComponent(font.buf, stack[Len(stack)].p).compGid))
            => GidOutOfRange]_vars

\* C14 witness: a compound glyph asked for on a cache that holds outlines has
\* failed on a component that is no glyph of the font.
C14_Witness ==
    /\ pc = "idle"
    /\ result = Err("gid out of range")
    /\ IsCompound(font, req)
    /\ before # <<>>
    /\ \E k \in 1..Len(ComponentsOf(font, req)) :
           ~IsGid(font, ComponentsOf(font, req)[k].compGid)

\* C14 second witness: the glyph id asked for is itself out of range.
C14_WitnessTopLevel ==
    /\ pc = "idle"
    /\ result = Err("gid out of range")
    /\ ~IsGid(font, req)
    /\ pointsCache # <<>>

\* The offsets the loca table of the font holds, and what the spec asks of
\* them: non-decreasing, none past the end of the glyf table.
StoredLoca(f) == ensureLoca(f).val
LocaConsistent(offs, f) ==
    /\ NonDecreasing(offs)
    /\ \A i \in 1..Len(offs) : offs[i] <= f.tables["glyf"].length
RangeConsistent(f, g) ==
    /\ StoredLoca(f)[g + 1] <= StoredLoca(f)[g + 2]
    /\ StoredLoca(f)[g + 2] <= f.tables["glyf"].length

\* C15: building the loca index fails with LocaInconsistent when the
\* numGlyphs + 1 offsets are not non-decreasing or one exceeds the glyf table
\* length; a glyph whose range has loca[gid] > loca[gid + 1] or reaches past
\* glyf is never decoded.
C15_LocaInconsistent ==
    /\ locaCache.loaded => LocaConsistent(locaCache.offsets, font)
    /\ \A g \in DOMAIN pointsCache : RangeConsistent(font, g)
    /\ (pc = "idle" /\ result.kind # "none" /\ IsGid(font, req)
          /\ ~LocaConsistent(StoredLoca(font), font))
         => result = Err("LocaInconsistent")

\* The first of the tags that the directory lacks, "" if it has them all.
RECURSIVE FirstAbsent(_, _)
FirstAbsent(f, tags) ==
    IF tags = <<>> THEN ""
    ELSE IF ~HasTable(f, Head(tags)) THEN Head(tags)
    ELSE FirstAbsent(f, Tail(tags))
NotFound(tag) == Err("TTF table not found: " \o tag)

ConstructTags == <<"hhea", "hmtx", "maxp">>
OutlineTags == <<"glyf", "loca", "head">>

\* C16: a lookup of a required table that the directory lacks throws the
\* missing-table error naming the tag: construction for hhea, hmtx and maxp,
\* and every use, the first and the later ones, for glyf, loca, head and cmap.
\* No operation goes on without the table: nothing is decoded or stored.
C16_MissingTable ==
    [][/\ pc = "new" =>
             IF FirstAbsent(font, ConstructTags) = "" THEN pc' = "idle"
             ELSE pc' = "new" /\ result' = NotFound(FirstAbsent(font, ConstructTags))
       /\ FirstAbsent(font, OutlineTags) # "" =>
             /\ pointsCache' = <<>> /\ locaCache' = NotLoaded /\ stack' = <<>>
             /\ \A gid \in 0..(font.numGlyphs - 1) :
                   EnterOutcome(font, locaCache, pointsCache, gid)
                     = [kind |-> "throw",
                        err |-> NotFound(FirstAbsent(font, OutlineTags)).err,
                        loca |-> locaCache]
             /\ (pc = "idle" /\ result'.kind = "error"
                   /\ \E gid \in 0..(font.numGlyphs - 1) : Call(gid))
                  => result' = NotFound(FirstAbsent(font, OutlineTags))
       /\ ~HasTable(font, "cmap") =>
             /\ cmap12' = NoCmap12 /\ cmap4' = NoCmap4
             /\ ensureCmap(font, cmap12, cmap4).err = NotFound("cmap").err
             /\ (pc = "idle" /\ result'.kind = "error"
                   /\ \E codepoint \in 0..2 : MapCharToGlyph(codepoint))
                  => result' = NotFound("cmap")]_vars

\* C16 witness: on a constructed font without a head table a glyph lookup has
\* failed twice.
C16_Witness ==
    /\ pc = "idle"
    /\ HasTable(font, "glyf") /\ HasTable(font, "loca") /\ ~HasTable(font, "head")
    /\ result = NotFound("head")
    /\ req = 1

\* C16 second witness: construction has failed on an absent maxp table.
C16_WitnessConstruct ==
    /\ pc = "new"
    /\ result = NotFound("maxp")

EmptyRange(f, g) == IsGid(f, g) /\ GlyphStart(f, g) = GlyphEnd(f, g)

\* C17: a glyph whose loca range is empty yields an outline with no points
\* and no contours, which is stored in the cache under its gid; a later
\* getGlyphOutline(gid) returns the cached value and reads neither loca nor
\* glyf (it gives the same answer on a file without these tables).
C17_EmptyOutlineCached ==
    /\ (Returned_ok /\ EmptyRange(font, req)) =>
           /\ result.val = EmptyOutline
           /\ req \in DOMAIN pointsCache
           /\ pointsCache[req] = EmptyOutline
    /\ \A g \in DOMAIN pointsCache :
           EmptyRange(font, g) =>
               EnterOutcome(Without(font, {"loca", "glyf", "head"}), NotLoaded,
                            pointsCache, g)
                 = [kind |-> "return", val |-> EmptyOutline, cache |-> pointsCache,
                    loca |-> NotLoaded]

\* C17 witness: the second call for a glyph with an empty range, answered
\* from the cache.
C17_Witness ==
    /\ Returned_ok
    /\ EmptyRange(font, req)
    /\ req \in DOMAIN before
    /\ before[req] = EmptyOutline
    /\ result.val = EmptyOutline

Clamp(i, n) == IF i < 0 THEN 0 ELSE IF i > n - 1 THEN n - 1 ELSE i
PointAt(pts, i) == <<pts[2 * i + 1], pts[2 * i + 2]>>

\* C18: a component placed by point indices (ArgsAreXY clear) has its point
\* arg1, clamped to its own points, on the parent point arg2, clamped to the
\* points assembled before it; with no parent point yet it is on (0, 0).
C18_PointIndexAlignment ==
    (Returned_ok /\ IsCompound(font, req)) =>
        LET hs == ComponentsOf(font, req)
            o == result.val
        IN
        \A k \in 1..Len(hs) :
            LET sub == pointsCache[hs[k].compGid]
                np == PtsBefore(pointsCache, hs, k)
            IN
            (~Bit(hs[k].flags, ARGS_ARE_XY_VALUES) /\ NumPoints(sub) > 0) =>
                PointAt(o.points, np + Clamp(hs[k].arg1, NumPoints(sub)))
                  = IF np = 0 THEN <<0, 0>>
                    ELSE PointAt(o.points, Clamp(hs[k].arg2, np))

\* C18 witness: a component under a matrix, its index past its last point,
\* brought onto the second of the parent's points.
C18_Witness ==
    /\ Returned_ok /\ IsCompound(font, req)
    /\ LET hs == ComponentsOf(font, req) IN
       /\ Len(hs) = 2
       /\ ~Bit(hs[2].flags, ARGS_ARE_XY_VALUES)
       /\ hs[2].b = 1 /\ hs[2].c = 0 - 1
       /\ hs[2].arg1 = 9 /\ hs[2].arg2 = 1
       /\ NumPoints(pointsCache[hs[2].compGid]) = 4
       /\ PtsBefore(pointsCache, hs, 2) = 4
       /\ PointAt(result.val.points, 7) = PointAt(result.val.points, 1)

\* C18 second witness: the first component, with no parent point, has its
\* point on (0, 0).
C18_WitnessOrigin ==
    /\ Returned_ok /\ IsCompound(font, req)
    /\ LET hs == ComponentsOf(font, req) IN
       /\ ~Bit(hs[1].flags, ARGS_ARE_XY_VALUES)
       /\ hs[1].arg1 = 1
       /\ NumPoints(pointsCache[hs[1].compGid]) = 4
       /\ PointAt(result.val.points, 1) = <<0, 0>>
       /\ PointAt(result.val.points, 0) # <<0, 0>>

\* Where the flag stream of glyph 0 starts, for a glyph of one contour
\* without instructions.
FlagsStart(f) == GlyphStart(f, 0) + 10 + 2 + 2

\* C19: flag decoding gives exactly numPoints flags and writes none past the
\* last point: a repeat count that runs past it is cut at numPoints, and a
\* repeated point has the flag byte of the point that carried the repeat.
C19_FlagsWithinNumPoints ==
    Returned_ok =>
        LET n == font.made.numPoints
            want == GlyphFlags(font.made.entries, n)
            got == ReadFlags(font.buf, [p |-> FlagsStart(font), flags |-> <<>>, ok |-> TRUE],
                             0, n)
        IN
        /\ got.ok
        /\ Len(got.flags) = n
        /\ got.flags = want
        /\ got.p = FlagsStart(font) + Len(FlagStream(font.made.entries))
        /\ Len(result.val.onCurve) = n
        /\ \A i \in 1..n : result.val.onCurve[i] = want[i] % 2

\* C19 witness: a repeat count of 200 on the second of three points.
C19_Witness ==
    /\ Returned_ok
    /\ font.made.numPoints = 3
    /\ Len(font.made.entries) = 2
    /\ font.made.entries[1].rep = 0 - 1
    /\ font.made.entries[2].rep = 200
    /\ font.made.entries[1].f = 48 /\ font.made.entries[2].f = 1
    /\ result.val.onCurve = <<0, 1, 1>>

\* The delta of point i that its flag selects, and the sums of the deltas.
DeltaOf(flag, d, isY) ==
    IF Bit(flag, IF isY THEN 4 ELSE 2)
    THEN IF Bit(flag, IF isY THEN 32 ELSE 16) THEN d.mag ELSE 0 - d.mag
    ELSE IF Bit(flag, IF isY THEN 32 ELSE 16) THEN 0
    ELSE IF isY THEN WordY(d.w) ELSE d.w
RECURSIVE SumTo(_, _, _, _)
SumTo(flags, ds, isY, i) ==
    IF i = 0 THEN 0
    ELSE SumTo(flags, ds, isY, i - 1) + DeltaOf(flags[i], ds[i], isY)

\* C20: each decoded X (Y) of a simple glyph is the running sum, from 0, of
\* the deltas its flags select: plus or minus a byte with the short bit, 0
\* with the same bit alone, a signed 16-bit delta otherwise; the emitted point
\* holds that sum for every sequence of deltas.
C20_CoordinatesAreSums ==
    Returned_ok =>
        LET n == font.made.numPoints
            flags == GlyphFlags(font.made.entries, n)
        IN
        /\ Len(result.val.points) = 2 * n
        /\ \A i \in 1..n :
              /\ result.val.points[2 * i - 1] = SumTo(flags, font.made.deltas, FALSE, i)
              /\ result.val.points[2 * i] = SumTo(flags, font.made.deltas, TRUE, i)

\* C20 restricted to sums in the 16-bit range (a side check: the decoder
\* agrees with the sums when no store wraps).
CoordinatesAreSumsInRange ==
    Returned_ok =>
        LET n == font.made.numPoints
            flags == GlyphFlags(font.made.entries, n)
            fits(v) == v >= 0 - 32768 /\ v <= 32767
        IN
        (\A i \in 1..n : /\ fits(SumTo(flags, font.made.deltas, FALSE, i))
                         /\ fits(SumTo(flags, font.made.deltas, TRUE, i)))
            => \A i \in 1..n :
                  /\ result.val.points[2 * i - 1] = SumTo(flags, font.made.deltas, FALSE, i)
                  /\ result.val.points[2 * i] = SumTo(flags, font.made.deltas, TRUE, i)

\* C30: when getGlyphOutline(gid) fails, the failing step writes nothing to the
\* cache and removes nothing from it: gid has no entry, every entry present
\* before the call is unchanged, and what the components decoded before the
\* failure had cached is still there.
C30_FailureKeepsCache ==
    [][(pc' = "idle" /\ result'.kind = "error" /\ (pc # "idle" \/ req' # req \/ result' # result
                                                    \/ pointsCache' # pointsCache))
          => /\ pointsCache' = pointsCache
             /\ req' \notin DOMAIN pointsCache'
             /\ \A g \in DOMAIN before' :
                   g \in DOMAIN pointsCache' /\ pointsCache'[g] = before'[g]]_vars

\* C30 witness: a compound glyph failed on a later component after an earlier
\* component had been decoded and cached by the same call.
C30_Witness ==
    /\ pc = "idle" /\ result.kind = "error"
    /\ IsGid(font, req) /\ IsCompound(font, req)
    /\ req \notin DOMAIN pointsCache
    /\ \E g \in DOMAIN pointsCache : /\ g \notin DOMAIN before
          /\ \E k \in 1..Len(ComponentsOf(font, req)) : ComponentsOf(font, req)[k].compGid = g

\* The triangles of an index list, and how many have i as their second index.
TriangleAt(idx, k) == <<idx[3 * k - 2], idx[3 * k - 1], idx[3 * k]>>
TrianglesAround(idx, i) ==
    Cardinality({k \in 1..(Len(idx) \div 3) : idx[3 * k - 1] = i})

\* C24: for each contour spanning the vertices [s, e], makeFanIndices emits
\* exactly the triangles (s, i, i + 1) for i in [s + 1, e): every index of a
\* triangle lies in its contour's range, the pivot is the contour's first
\* vertex, and a contour of fewer than 3 vertices gives no triangle.
C24_FanTriangles ==
    result.kind = "ok" =>
        LET ends == req
            idx == result.val
        IN
        /\ Len(idx) % 3 = 0
        /\ \A k \in 1..(Len(idx) \div 3) :
              LET t == TriangleAt(idx, k)
                  c == ContourOf(ends, t[2])
              IN
              /\ t[1] = StartOf(ends, c)
              /\ t[2] > t[1] /\ t[3] = t[2] + 1 /\ t[3] <= ends[c]
              /\ k > 1 => TriangleAt(idx, k - 1)[2] < t[2]
        /\ \A c \in 1..Len(ends) :
              \A i \in StartOf(ends, c)..ends[c] :
                  TrianglesAround(idx, i) =
                      IF i > StartOf(ends, c) /\ i < ends[c] THEN 1 ELSE 0

\* C24 witness: a contour of one vertex between two contours that have a
\* triangle each.
C24_Witness ==
    /\ result.kind = "ok"
    /\ req = <<2, 3, 6>>
    /\ result.val = <<0, 1, 2, 4, 5, 6>>

\* C23: quadBezierAdaptive terminates for every input, stops subdividing when
\* the depth reaches the cap of 12, so that one curve gives at most 4096 chord
\* endpoints, and the last endpoint it emits is the curve's end point p2.
C23_SubdivisionCapped ==
    result.kind = "ok" =>
        /\ Len(result.val) >= 1
        /\ Len(result.val) <= 4096
        /\ result.val[Len(result.val)] = req.p2

\* The side checks of C23: the last endpoint is p2 and there are at most
\* 2^(cap + 1) endpoints.
SubdivisionEndsAtP2 ==
    result.kind = "ok" =>
        /\ Len(result.val) >= 1
        /\ Len(result.val) <= 8192
        /\ result.val[Len(result.val)] = req.p2
SubdivisionAtCap == result.kind = "ok" /\ Len(result.val) = 8192

\* The input contour c of the outline flattened, as points in fixed point.
InStart(o, c) == IF c = 1 THEN 0 ELSE o.contours[c - 1] + 1
InCount(o, c) == o.contours[c] - InStart(o, c) + 1
InPoint(o, c, k) == PointOf(o, InStart(o, c) + k)
AllOnCurve(o) == \A k \in 1..Len(o.onCurve) : o.onCurve[k] # 0

\* How many vertices were emitted for an input contour, and the input contour
\* a vertex of the output was emitted for.
EmittedFor(poly, c) == poly.added[c]
RECURSIVE EmittedBefore(_, _)
EmittedBefore(poly, c) ==
    IF c = 1 THEN 0 ELSE EmittedBefore(poly, c - 1) + EmittedFor(poly, c - 1)
OwnerOf(poly, j) ==
    CHOOSE c \in 1..Len(poly.segs) :
        EmittedBefore(poly, c) <= j /\ j < EmittedBefore(poly, c) + EmittedFor(poly, c)
VertexAt(poly, j) == <<poly.points[2 * j + 1], poly.points[2 * j + 2]>>

\* C21: a flattened contour is closed only implicitly: the starting vertex is
\* not emitted a second time as the last vertex, so an outline of on-curve
\* points alone is flattened to exactly its own points, in input order, with
\* its own contour ends.
C21_ImplicitlyClosed ==
    (result.kind = "ok" /\ AllOnCurve(req.outline)) =>
        /\ result.val.points = [k \in 1..Len(req.outline.points) |->
                                   req.outline.points[k] * FixedOne]
        /\ \A c \in 1..Len(req.outline.contours) :
              EmittedFor(result.val, c) = InCount(req.outline, c)

\* What the code does for C21: every contour of on-curve points ends with a
\* second copy of its first vertex.
StartRepeated ==
    (result.kind = "ok" /\ AllOnCurve(req.outline)) =>
        \A c \in 1..Len(req.outline.contours) :
            /\ EmittedFor(result.val, c) = InCount(req.outline, c) + 1
            /\ VertexAt(result.val, EmittedBefore(result.val, c) + InCount(req.outline, c))
                   = VertexAt(result.val, EmittedBefore(result.val, c))

\* The segments of input contour c walked once from its implicit start s: the
\* points from index k on, the walk closing at s.
RECURSIVE WalkOnce(_, _, _, _, _)
WalkOnce(o, c, k, prev, s) ==
    IF k >= InCount(o, c) THEN <<>>
    ELSE
    LET curr == InPoint(o, c, k) IN
    IF curr.on THEN <<Line(prev, curr)>> \o WalkOnce(o, c, k + 1, curr, s)
    ELSE
    LET next == IF k + 1 < InCount(o, c) THEN InPoint(o, c, k + 1) ELSE s IN
    IF next.on THEN <<Quad(prev, curr, next)>> \o WalkOnce(o, c, k + 2, next, s)
    ELSE <<Quad(prev, curr, MidPoint(curr, next))>>
         \o WalkOnce(o, c, k + 1, MidPoint(curr, next), s)
ImplicitStart(o, c) ==
    LET first == InPoint(o, c, 0)
        last == InPoint(o, c, InCount(o, c) - 1)
    IN IF last.on THEN last ELSE MidPoint(last, first)
FirstOff(o, c) == ~InPoint(o, c, 0).on

\* C22: when the first point of a contour is off-curve, the output begins at
\* the implicit start (the last point if on-curve, else the midpoint of last
\* and first) and the contour is walked exactly once from there: the first
\* off-curve point is the control point of the first curve, and every segment
\* is emitted once, in contour order, none as a chord in place of a curve.
C22_OffCurveStartWalkedOnce ==
    result.kind = "ok" =>
        \A c \in 1..Len(req.outline.contours) :
            FirstOff(req.outline, c) =>
                LET s == ImplicitStart(req.outline, c) IN
                /\ VertexAt(result.val, EmittedBefore(result.val, c)) = <<s.x, s.y>>
                /\ result.val.segs[c][1].kind = "quad"
                /\ result.val.segs[c][1].p1 = <<InPoint(req.outline, c, 0).x,
                                                InPoint(req.outline, c, 0).y>>
                /\ result.val.segs[c] = WalkOnce(req.outline, c, 0, s, s)

\* The side check of C22: the output does begin at the implicit start.
BeginsAtImplicitStart ==
    result.kind = "ok" =>
        \A c \in 1..Len(req.outline.contours) :
            FirstOff(req.outline, c) =>
                VertexAt(result.val, EmittedBefore(result.val, c))
                    = <<ImplicitStart(req.outline, c).x, ImplicitStart(req.outline, c).y>>

\* C27: the contour ends returned by outlineToPolylineTTF partition its
\* vertices: the ranges [previous end + 1, end] cover every vertex once, the
\* last end is the last vertex, and a range holds vertices of one input
\* contour only, so no vertex of a contour left out of the ends lies in the
\* range of the next one.
C27_EndsPartitionVertices ==
    result.kind = "ok" =>
        LET poly == result.val
            n == Len(poly.points) \div 2
            ends == poly.contours
        IN
        /\ \A k \in 1..(Len(ends) - 1) : ends[k] < ends[k + 1]
        /\ \A k \in 1..Len(ends) : ends[k] >= 0 /\ ends[k] < n
        /\ n > 0 => (ends # <<>> /\ ends[Len(ends)] = n - 1)
        /\ \A k \in 1..Len(ends) :
              \A i, j \in StartOf(ends, k)..ends[k] : OwnerOf(poly, i) = OwnerOf(poly, j)

\* The side check of C27: the wireframe renderer gives every contour of a
\* well-formed outline its end.
WireframeEndsPartition ==
    (result.kind = "ok" /\ req.program = "wireframe") =>
        LET poly == result.val
            ends == poly.contours
        IN
        /\ Len(ends) = Len(req.outline.contours)
        /\ \A k \in 1..Len(ends) : ends[k] = EmittedBefore(poly, k) + EmittedFor(poly, k) - 1

\* C29: over any sequence of frames getGlyphMesh decodes and flattens the
\* outline of a gid at most once and creates its buffers at most once; the
\* cache holds the mesh of that one creation, every draw of the glyph uses it,
\* and a gid without a polyline is cached as null after one decoding and one
\* flattening.
C29_MeshBuiltOnce ==
    /\ \A gid \in DOMAIN work :
          /\ work[gid].decoded <= 1
          /\ work[gid].tessellated <= 1
          /\ work[gid].meshes <= 1
    /\ \A gid \in DOMAIN GLYPH_CACHE :
          /\ gid \in DOMAIN work
          /\ work[gid].tessellated = 1
          /\ IF GLYPH_CACHE[gid] = Null THEN work[gid].meshes = 0
             ELSE GLYPH_CACHE[gid].id = <<gid, 1>> /\ work[gid].meshes = 1
    /\ \A k \in 1..Len(pass) :
          /\ pass[k].mesh # Null
          /\ pass[k].mesh = GLYPH_CACHE[pass[k].mesh.id[1]]

\* A later frame asked again for the glyph that was cached as null.
C29_Witness ==
    /\ TEXT_LINES = <<<<2, 1>>>>
    /\ at.phase = "layout" /\ at.line = 1 /\ at.ch = 2
    /\ DOMAIN GLYPH_CACHE = {1, 2}
    /\ GLYPH_CACHE[2] = Null
    /\ GLYPH_CACHE[1] # Null
    /\ work[2].tessellated = 1

\* The advance width the file was made with for the glyph of the character.
MadeAdvance(ch) == font.made.advances[font.made.gidOf[ch] + 1]
\* advanceWidth * (fontSizePx / unitsPerEm) + letterSpacing
ScaledAdvance(advanceWidth) ==
    (advanceWidth * FONT_SIZE_PX(renderer) * FixedOne) \div font.unitsPerEm
    + LETTER_SPACING_PX * FixedOne
\* The same with six tenths of unitsPerEm, which come to six tenths of the
\* font size, for a space without advance in the stencil-cover renderer.
FallbackAdvance(ch) ==
    IF renderer = "stencil" /\ ch = Space /\ MadeAdvance(ch) = 0
    THEN ((6 * FONT_SIZE_PX(renderer)) \div 10 + LETTER_SPACING_PX) * FixedOne
    ELSE ScaledAdvance(MadeAdvance(ch))
\* The origin of character k of the line: the start and the advances before.
RECURSIVE OriginX(_, _, _)
OriginX(line, k, fallback) ==
    IF k <= 1 THEN START_X * FixedOne
    ELSE OriginX(line, k - 1, fallback)
         + (IF fallback THEN FallbackAdvance(line[k - 1])
            ELSE ScaledAdvance(MadeAdvance(line[k - 1])))
OriginY(l) == (START_Y(renderer) + (l - 1) * LINE_GAP_PX(renderer)) * FixedOne
PenFollows(fallback) ==
    /\ at.phase \in {"layout", "threw"} =>
          /\ penY = OriginY(at.line)
          /\ at.line <= Len(TEXT_LINES) => penX = OriginX(CurrentLine, at.ch, fallback)
    /\ \A n \in 1..Len(params) :
          /\ params[n].penX = OriginX(TEXT_LINES[params[n].of[1]], params[n].of[2], fallback)
          /\ params[n].penY = OriginY(params[n].of[1])

\* C25 as stated: the pen starts every line at the start X and grows after
\* every character by the advance width of the font's hmetric scaled by
\* fontSizePx / unitsPerEm plus the letter spacing, so the origin of a character
\* is the start X plus the advances of the characters before it; pen Y grows
\* by the line gap once per line.
C25_PenAdvancesByHmetric == PenFollows(FALSE)

\* C25 amended: the same for every character that is laid out, the advance
\* width being that of the font's hmetric except that the stencil-cover
\* renderer takes 0.6 * unitsPerEm for a space whose advance width is 0.
C25_PenAdvancesWithSpaceFallback == PenFollows(TRUE)

\* The stencil-cover renderer has laid out a space without advance and a glyph
\* after it.
C25_Witness ==
    /\ renderer = "stencil"
    /\ TEXT_LINES = <<<<Space, 1>>>>
    /\ MadeAdvance(Space) = 0
    /\ at.phase = "layout" /\ at.line = 1 /\ at.ch = 3
    /\ Len(params) = 1
    /\ params[1].penX =
           (START_X + (6 * FONT_SIZE_PX(renderer)) \div 10 + LETTER_SPACING_PX) * FixedOne

IsStencil(d) == d.pipeline = "stencil"
IsCover(d) == d.pipeline = "cover"
\* The draws of one pipeline are those of the first entries of the draw list,
\* in its order, each with the mesh and the parameter offset of its entry.
DrawsOfList(draws) ==
    /\ Len(draws) <= Len(drawList)
    /\ \A k \in 1..Len(draws) :
          /\ draws[k].mesh = drawList[k].mesh
          /\ draws[k].offset = drawList[k].index * UNIFORM_ALIGN

\* C26: in a frame of the stencil-cover renderer the stencil draws come before
\* the cover draws, and when the frame is over every entry of the draw list
\* has one stencil draw and one cover draw, both with the offset of its
\* parameter record.
C26_StencilThenCover ==
    renderer = "stencil" =>
        LET stencil == SelectSeq(pass, IsStencil)
            cover == SelectSeq(pass, IsCover)
        IN /\ pass = stencil \o cover
           /\ DrawsOfList(stencil)
           /\ DrawsOfList(cover)
           /\ cover # <<>> => Len(stencil) = Len(drawList)
           /\ at.phase = "idle" =>
                 Len(stencil) = Len(drawList) /\ Len(cover) = Len(drawList)
           /\ \A j, k \in 1..Len(drawList) :
                 j # k => drawList[j].index # drawList[k].index

\* A frame of two glyphs is over: two stencil draws, then two cover draws.
C26_Witness ==
    /\ renderer = "stencil"
    /\ at.phase = "idle"
    /\ Len(drawList) = 2
    /\ Len(pass) = 4
    /\ pass[2].pipeline = "stencil" /\ pass[3].pipeline = "cover"
    /\ pass[4].offset = UNIFORM_ALIGN

\* C28: in the stencil-cover renderer the glyph counter never exceeds
\* MAX_GLYPHS; entry k of the draw list has the index k - 1, below MAX_GLYPHS,
\* and its parameter record, the k-th one written in the frame and the only
\* one at its offset, ends inside paramsBuffer.
C28_RecordsInsideBuffer ==
    renderer = "stencil" =>
        /\ glyphIndex <= MAX_GLYPHS
        /\ Len(drawList) = glyphIndex
        /\ Len(params) = glyphIndex
        /\ PARAMS_SIZE_BYTES <= UNIFORM_ALIGN
        /\ \A k \in 1..Len(drawList) :
              /\ drawList[k].index = k - 1
              /\ drawList[k].index < MAX_GLYPHS
              /\ params[k].offset = drawList[k].index * UNIFORM_ALIGN
              /\ params[k].offset + PARAMS_SIZE_BYTES <= ParamsBufferSize

\* The loop over a line of more glyphs than the draw list may hold has ended
\* with the list full.
C28_Witness ==
    /\ renderer = "stencil"
    /\ Len(TEXT_LINES[1]) > MAX_GLYPHS + 1
    /\ at.phase = "layout" /\ at.line = 2
    /\ glyphIndex = MAX_GLYPHS
    /\ drawList[MAX_GLYPHS].index = MAX_GLYPHS - 1
    /\ params[MAX_GLYPHS].of[2] <= MAX_GLYPHS + 1

====
